---- MODULE Spec2Model ----
(***************************************************************************)
(* A model of codemap's index store (core/map_store.py), symbol model      *)
(* (parsers/base.py) and indexing orchestrator (core/indexer.py).          *)
(*                                                                         *)
(* Conventions                                                             *)
(*  - Optional[T] is a set: {} is None, {x} is the value x.                *)
(*  - A Python str whose length or characters matter (signature,           *)
(*    docstring) is a sequence of one-character strings.                   *)
(*  - A relative path is the sequence of its components, <<"a","x.py">>    *)
(*    for "a/x.py"; a directory likewise, <<>> for the project root ("").  *)
(*  - A dict is a function whose domain is the set of keys present.        *)
(*  - The timestamps generated_at of shards and manifest are not kept;     *)
(*    the files an operation writes or unlinks are recorded instead in     *)
(*    the store's written / manifest_written / unlinked fields.            *)
(*  - An exception that leaves a MapStore method is the store's `raised`   *)
(*    field: once set, the rest of the operation changes nothing.          *)
(*  - A persisted file is the dict that was written, or Malformed(kind)    *)
(*    for a file something else wrote.                                     *)
(***************************************************************************)
EXTENDS Integers, Sequences, FiniteSets, TLC

VARIABLES
    store,      \* the MapStore object and the .codemap directory on disk
    fs,         \* the project's source files: path -> Optional content
    clock,      \* datetime.now()
    last,       \* the operation that ran last: [op, path, args, ret]
    repeated,   \* TRUE iff the last operation repeated the one before it
    parsers,    \* Indexer._parsers: the languages a parser was registered for
    watcher     \* the CodeMapWatcher, its event handler and its timer threads

vars == <<store, fs, clock, last, repeated, parsers, watcher>>

(***************************************************************************)
(* Bounds and program constants                                            *)
(***************************************************************************)
MaxClock == 1

SignatureLimit == 100
SignatureKeep == 97
DocstringLimit == 150
HashSpace == 2

None == {}
Some(x) == {x}
Val(o) == CHOOSE x \in o : TRUE

Rep(c, n) == [i \in 1..n |-> c]

(***************************************************************************)
(* parsers/base.py: Symbol                                                 *)
(***************************************************************************)
Symbol(name, type, lines, signature, docstring, children) ==
    [name |-> name, type |-> type, lines |-> lines, signature |-> signature,
     docstring |-> docstring, children |-> children]

IsSpace(c) == c \in {" ", "\n", "\t"}

RECURSIVE lstrip(_)
lstrip(str) ==
    IF str # <<>> /\ IsSpace(Head(str)) THEN lstrip(Tail(str)) ELSE str

RECURSIVE rstrip(_)
rstrip(str) ==
    IF str # <<>> /\ IsSpace(str[Len(str)])
    THEN rstrip(SubSeq(str, 1, Len(str) - 1))
    ELSE str

strip(str) == rstrip(lstrip(str))

\* `if self.signature:` -- None and "" are both falsy
Truthy(optstr) == optstr # None /\ Val(optstr) # <<>>

TruncateSignature_cuts_at_limit(sig) ==
    IF Len(sig) <= SignatureLimit
    THEN sig
    ELSE SubSeq(sig, 1, SignatureLimit) \o <<".", ".", ".">>

TruncateSignature(sig) ==
    IF Len(sig) <= SignatureLimit
    THEN sig
    ELSE SubSeq(sig, 1, SignatureKeep) \o <<".", ".", ".">>

TruncateDocstring(doc) ==
    IF Len(doc) > DocstringLimit THEN SubSeq(doc, 1, DocstringLimit) ELSE doc

RECURSIVE Symbol_to_dict(_)
Symbol_to_dict(self) ==
    LET keys == {"name", "type", "lines"}
                \cup (IF Truthy(self.signature) THEN {"signature"} ELSE {})
                \cup (IF Truthy(self.docstring) THEN {"docstring"} ELSE {})
                \cup (IF self.children # <<>> THEN {"children"} ELSE {})
    IN  [k \in keys |->
            CASE k = "name" -> self.name
              [] k = "type" -> self.type
              [] k = "lines" -> self.lines
              [] k = "signature" -> TruncateSignature(Val(self.signature))
              [] k = "docstring" -> TruncateDocstring(strip(Val(self.docstring)))
              [] k = "children" ->
                    [i \in 1..Len(self.children) |-> Symbol_to_dict(self.children[i])]]

\* data.get(key): None when the key is absent
DictGet(data, key) == IF key \in DOMAIN data THEN Some(data[key]) ELSE None

RECURSIVE Symbol_from_dict(_)
Symbol_from_dict(data) ==
    LET raw == IF "children" \in DOMAIN data THEN data["children"] ELSE <<>>
        children == [i \in 1..Len(raw) |-> Symbol_from_dict(raw[i])]
    IN  Symbol(data["name"], data["type"], data["lines"],
               DictGet(data, "signature"), DictGet(data, "docstring"), children)

(***************************************************************************)
(* core/map_store.py: FileEntry, DirectoryMap, RootManifest                *)
(***************************************************************************)
FileEntry(hash, indexed_at, language, lines, symbols) ==
    [hash |-> hash, indexed_at |-> indexed_at, language |-> language,
     lines |-> lines, symbols |-> symbols]

FileEntry_to_dict(self) ==
    [hash |-> self.hash, indexed_at |-> self.indexed_at,
     language |-> self.language, lines |-> self.lines,
     symbols |-> [i \in 1..Len(self.symbols) |-> Symbol_to_dict(self.symbols[i])]]

FileEntry_from_dict(data) ==
    FileEntry(data.hash, data.indexed_at, data.language, data.lines,
              [i \in 1..Len(data.symbols) |-> Symbol_from_dict(data.symbols[i])])

NoFiles == [name \in {} |-> {}]

DirectoryMap(directory, files) == [directory |-> directory, files |-> files]

DirectoryMap_to_dict(self) ==
    [directory |-> self.directory,
     files |-> [name \in DOMAIN self.files |-> FileEntry_to_dict(self.files[name])]]

DirectoryMap_from_dict(data) ==
    DirectoryMap(data.directory,
                 [name \in DOMAIN data.files |-> FileEntry_from_dict(data.files[name])])

\* RootManifest(): stats {} (None here) and directories []
RootManifest == [stats |-> None, directories |-> <<>>]

\* str order of the directory names of the model ("" < "a" < "a/b" < "b")
ComponentRank(c) == CASE c = "a" -> 1 [] c = "b" -> 2 [] OTHER -> 3

RECURSIVE DirLess(_, _)
DirLess(d1, d2) ==
    IF d1 = <<>> THEN d2 # <<>>
    ELSE IF d2 = <<>> THEN FALSE
    ELSE IF Head(d1) = Head(d2) THEN DirLess(Tail(d1), Tail(d2))
    ELSE ComponentRank(Head(d1)) < ComponentRank(Head(d2))

RootManifest_to_dict(self) ==
    [stats |-> self.stats, directories |-> SortSeq(self.directories, DirLess)]

RootManifest_from_dict(data) ==
    [stats |-> data.stats, directories |-> data.directories]

Range(seq) == {seq[i] : i \in DOMAIN seq}

(***************************************************************************)
(* core/map_store.py: MapStore.  Every method is an operator from the      *)
(* store (object and disk) to the store after the call; a method that      *)
(* returns a value yields [s |-> store after, ret |-> value].              *)
(***************************************************************************)
\* MapStore(root) over the given disk contents
MapStore(disk_manifest, disk_shards) ==
    [manifest |-> None,                  \* self._manifest
     dir_maps |-> NoFiles,               \* self._dir_maps
     disk_manifest |-> disk_manifest,    \* .codemap/.codemap.json
     disk_shards |-> disk_shards,        \* directory -> its shard file
     written |-> {},                     \* shard files written by the last step
     manifest_written |-> FALSE,         \* manifest written by the last step
     unlinked |-> {},                    \* shard files deleted by the last step
     mutated |-> {},                     \* cached shards put/remove changed
     raised |-> FALSE]                   \* the operation ended by raising

Begin(s) ==
    [s EXCEPT !.written = {}, !.manifest_written = FALSE, !.unlinked = {},
              !.raised = FALSE]

\* a persisted file that is not what to_dict wrote: text that is not JSON,
\* a JSON array instead of an object, an object whose file entry lacks "hash"
Malformations == {"invalid_json", "not_an_object", "missing_key"}

Malformed(kind) == [malformed |-> kind]

IsMalformed(doc) == "malformed" \in DOMAIN doc

\* `except (json.JSONDecodeError, KeyError)`
Caught == {"JSONDecodeError", "KeyError"}

\* what json.load followed by RootManifest.from_dict raises, "" if nothing;
\* from_dict reads every key with data.get, a missing one gets its default
ManifestLoadError(doc) ==
    IF ~IsMalformed(doc) THEN ""
    ELSE CASE doc.malformed = "invalid_json" -> "JSONDecodeError"
           [] doc.malformed = "not_an_object" -> "AttributeError"
           [] doc.malformed = "missing_key" -> ""

\* what json.load followed by DirectoryMap.from_dict raises, "" if nothing
ShardLoadError(doc) ==
    IF ~IsMalformed(doc) THEN ""
    ELSE CASE doc.malformed = "invalid_json" -> "JSONDecodeError"
           [] doc.malformed = "not_an_object" -> "AttributeError"
           [] doc.malformed = "missing_key" -> "KeyError"

_load_manifest(s) ==
    IF s.disk_manifest = None
    THEN [raised |-> FALSE, ret |-> RootManifest]
    ELSE LET doc == Val(s.disk_manifest)
             error == ManifestLoadError(doc)
         IN  IF error = ""
             THEN [raised |-> FALSE,
                   ret |-> IF IsMalformed(doc) THEN RootManifest
                           ELSE RootManifest_from_dict(doc)]
             ELSE IF error \in Caught
             THEN [raised |-> FALSE, ret |-> RootManifest]
             ELSE [raised |-> TRUE, ret |-> RootManifest]

\* the manifest property: loads the manifest on first use
WithManifest(s) ==
    IF s.raised \/ s.manifest # None THEN s
    ELSE LET r == _load_manifest(s)
         IN  IF r.raised THEN [s EXCEPT !.raised = TRUE]
             ELSE [s EXCEPT !.manifest = Some(r.ret)]

\* self.manifest where it does not raise (an empty one stands in where it does)
manifest(s) ==
    LET s1 == WithManifest(s)
    IN  IF s1.manifest = None THEN RootManifest ELSE Val(s1.manifest)

_load_dir_map(s, directory) ==
    IF s.raised \/ directory \in DOMAIN s.dir_maps
    THEN s
    ELSE IF directory \notin DOMAIN s.disk_shards
    THEN [s EXCEPT !.dir_maps = (directory :> DirectoryMap(directory, NoFiles)) @@ @]
    ELSE LET doc == s.disk_shards[directory]
             error == ShardLoadError(doc)
         IN  IF error = ""
             THEN [s EXCEPT !.dir_maps = (directory :> DirectoryMap_from_dict(doc)) @@ @]
             ELSE IF error \in Caught
             THEN [s EXCEPT !.dir_maps =
                                (directory :> DirectoryMap(directory, NoFiles)) @@ @]
             ELSE [s EXCEPT !.raised = TRUE]

_save_dir_map(s, directory) ==
    IF s.raised \/ directory \notin DOMAIN s.dir_maps
    THEN s
    ELSE [s EXCEPT !.disk_shards =
                       (directory :> DirectoryMap_to_dict(s.dir_maps[directory])) @@ @,
                   !.written = @ \cup {directory}]

save_manifest(s) ==
    LET s1 == WithManifest(s)
    IN  IF s1.raised THEN s1 ELSE
        [s1 EXCEPT !.disk_manifest = Some(RootManifest_to_dict(Val(s1.manifest))),
                   !.manifest_written = TRUE]

RECURSIVE SaveEach(_, _)
SaveEach(s, dirs) ==
    IF dirs = {} THEN s
    ELSE LET d == CHOOSE x \in dirs : TRUE
         IN  SaveEach(_save_dir_map(s, d), dirs \ {d})

save(s) == save_manifest(SaveEach(s, DOMAIN s.dir_maps))

parent(rel_path) == SubSeq(rel_path, 1, Len(rel_path) - 1)
filename(rel_path) == rel_path[Len(rel_path)]

Without(f, key) == [k \in (DOMAIN f) \ {key} |-> f[k]]

\* `if directory not in self.manifest.directories: ...append(directory)`
EnsureListed_never(s, directory) == WithManifest(s)

EnsureListed_always(s, directory) ==
    LET s1 == WithManifest(s)
    IN  IF s1.raised THEN s1
        ELSE [s1 EXCEPT !.manifest =
                  Some([Val(@) EXCEPT !.directories = Append(@, directory)])]

EnsureListed(s, directory) ==
    LET s1 == WithManifest(s)
    IN  IF s1.raised \/ directory \in Range(Val(s1.manifest).directories)
        THEN s1
        ELSE [s1 EXCEPT !.manifest =
                  Some([Val(@) EXCEPT !.directories = Append(@, directory)])]

MapStore_update_file(s, rel_path, hash, language, lines, symbols, now) ==
    LET directory == parent(rel_path)
        s1 == _load_dir_map(s, directory)
        entry == FileEntry(hash, now, language, lines, symbols)
        s2 == [s1 EXCEPT !.dir_maps[directory].files =
                             (filename(rel_path) :> entry) @@ @,
                         !.mutated = @ \cup {directory}]
    IN  IF s1.raised THEN s1 ELSE EnsureListed(s2, directory)

SeqRemove(seq, x) == SelectSeq(seq, LAMBDA y : y # x)

\* the shard is now empty: drop it from manifest, cache and disk
PruneEmpty_keeps_file(s, directory) ==
    LET s1 == WithManifest(s)
    IN  IF s1.raised THEN s1 ELSE
        [s1 EXCEPT !.manifest = Some([Val(@) EXCEPT
                       !.directories = SeqRemove(@, directory)]),
                   !.dir_maps = Without(@, directory),
                   !.mutated = @ \ {directory}]

PruneEmpty(s, directory) ==
    LET s1 == WithManifest(s)
    IN  IF s1.raised THEN s1 ELSE
        [s1 EXCEPT !.manifest = Some([Val(@) EXCEPT
                       !.directories = SeqRemove(@, directory)]),
                   !.dir_maps = Without(@, directory),
                   !.mutated = @ \ {directory},
                   !.disk_shards = Without(@, directory),
                   !.unlinked = @ \cup ({directory} \cap DOMAIN s1.disk_shards)]

remove_file_keeps_entry(s, rel_path) ==
    LET s1 == _load_dir_map(s, parent(rel_path))
    IN  IF s1.raised THEN [s |-> s1, ret |-> FALSE] ELSE
        [s |-> s1,
         ret |-> filename(rel_path) \in DOMAIN s1.dir_maps[parent(rel_path)].files]

remove_file_always_true(s, rel_path) ==
    LET directory == parent(rel_path)
        s1 == _load_dir_map(s, directory)
        s2 == [s1 EXCEPT !.dir_maps[directory].files =
                             [k \in (DOMAIN @) \ {filename(rel_path)} |-> @[k]]]
    IN  IF s1.raised THEN [s |-> s1, ret |-> FALSE] ELSE
        [s |-> IF DOMAIN s2.dir_maps[directory].files # {}
               THEN s2 ELSE PruneEmpty(s2, directory),
         ret |-> TRUE]

remove_file(s, rel_path) ==
    LET directory == parent(rel_path)
        s1 == _load_dir_map(s, directory)
    IN  IF s1.raised \/ filename(rel_path) \notin DOMAIN s1.dir_maps[directory].files
        THEN [s |-> s1, ret |-> FALSE]
        ELSE LET s2 == [s1 EXCEPT !.dir_maps[directory].files =
                                      Without(@, filename(rel_path)),
                                  !.mutated = @ \cup {directory}]
             IN  IF DOMAIN s2.dir_maps[directory].files # {}
                 THEN [s |-> s2, ret |-> TRUE]
                 ELSE [s |-> PruneEmpty(s2, directory), ret |-> TRUE]

get_file(s, rel_path) ==
    LET s1 == _load_dir_map(s, parent(rel_path))
        files == s1.dir_maps[parent(rel_path)].files
    IN  IF s1.raised THEN [s |-> s1, ret |-> None]
        ELSE [s |-> s1, ret |-> DictGet(files, filename(rel_path))]

RECURSIVE LoadEach(_, _)
LoadEach(s, dirs) ==
    IF dirs = <<>> THEN s
    ELSE LoadEach(_load_dir_map(s, Head(dirs)), Tail(dirs))

\* `for directory in self.manifest.directories: self._load_dir_map(directory)`
LoadListed(s) == LoadEach(WithManifest(s), manifest(s).directories)

_count_symbols_roots_only(symbols) == Len(symbols)

RECURSIVE _count_symbols(_)
_count_symbols(symbols) ==
    IF symbols = <<>> THEN 0
    ELSE 1 + _count_symbols(Head(symbols).children) + _count_symbols(Tail(symbols))

RECURSIVE SumOver(_, _)
SumOver(f, keys) ==
    IF keys = {} THEN 0
    ELSE LET k == CHOOSE x \in keys : TRUE
         IN  f[k] + SumOver(f, keys \ {k})

update_stats(s) ==
    LET s1 == LoadListed(s)
        listed == Range(Val(s1.manifest).directories)
        nfiles == [d \in listed |-> Cardinality(DOMAIN s1.dir_maps[d].files)]
        nsyms == [d \in listed |->
                    LET files == s1.dir_maps[d].files
                    IN  SumOver([n \in DOMAIN files |-> _count_symbols(files[n].symbols)],
                                DOMAIN files)]
    IN  IF s1.raised THEN s1 ELSE
        [s1 EXCEPT !.manifest = Some([Val(@) EXCEPT !.stats =
            Some([total_files |-> SumOver(nfiles, listed),
                  total_symbols |-> SumOver(nsyms, listed)])])]

clear_keeps_cache(s) ==
    [s EXCEPT !.disk_manifest = None,
              !.disk_shards = NoFiles,
              !.unlinked = DOMAIN s.disk_shards,
              !.manifest = Some(RootManifest)]

clear(s) ==
    [s EXCEPT !.disk_manifest = None,
              !.disk_shards = NoFiles,
              !.unlinked = DOMAIN s.disk_shards,
              !.manifest = Some(RootManifest),
              !.dir_maps = NoFiles,
              !.mutated = {}]

\* MapStore.load(root): raises FileNotFoundError without a manifest file
MapStore_load(disk_manifest, disk_shards) ==
    LET s == MapStore(disk_manifest, disk_shards)
    IN  WithManifest(s)

RECURSIVE SetToSeq(_)
SetToSeq(S) ==
    IF S = {} THEN <<>>
    ELSE LET x == CHOOSE y \in S : TRUE IN <<x>> \o SetToSeq(S \ {x})

RECURSIVE FilesOfEach_bare_names(_, _)
FilesOfEach_bare_names(s, dirs) ==
    IF dirs = <<>> THEN <<>>
    ELSE LET files == s.dir_maps[Head(dirs)].files
             names == SetToSeq(DOMAIN files)
         IN  [i \in 1..Len(names) |-> <<<<names[i]>>, files[names[i]]>>]
             \o FilesOfEach_bare_names(s, Tail(dirs))

RECURSIVE FilesOfEach(_, _)
FilesOfEach(s, dirs) ==
    IF dirs = <<>> THEN <<>>
    ELSE LET files == s.dir_maps[Head(dirs)].files
             names == SetToSeq(DOMAIN files)
         IN  [i \in 1..Len(names) |-> <<Head(dirs) \o <<names[i]>>, files[names[i]]>>]
             \o FilesOfEach(s, Tail(dirs))

\* get_all_files, run to exhaustion: the (relative_path, FileEntry) pairs in
\* the order of manifest.directories; a shard's files in one fixed order
get_all_files(s) ==
    LET s1 == LoadListed(s)
    IN  IF s1.raised THEN [s |-> s1, ret |-> <<>>]
        ELSE [s |-> s1, ret |-> FilesOfEach(s1, Val(s1.manifest).directories)]

\* the characters of the symbol names of the model
Chars(name) ==
    CASE name = "func" -> <<"f", "u", "n", "c">>
      [] name = "Greeter" -> <<"G", "r", "e", "e", "t", "e", "r">>
      [] name = "greet" -> <<"g", "r", "e", "e", "t">>
      [] name = "UserService" ->
            <<"U", "s", "e", "r", "S", "e", "r", "v", "i", "c", "e">>
      [] name = "get_user" -> <<"g", "e", "t", "_", "u", "s", "e", "r">>
      [] name = "wide" -> <<"w", "i", "d", "e">>
      [] name = "verbose" -> <<"v", "e", "r", "b", "o", "s", "e">>

UpperCase == <<"A", "B", "C", "D", "E", "F", "G", "H", "I", "J", "K", "L", "M",
               "N", "O", "P", "Q", "R", "S", "T", "U", "V", "W", "X", "Y", "Z">>
LowerCase == <<"a", "b", "c", "d", "e", "f", "g", "h", "i", "j", "k", "l", "m",
               "n", "o", "p", "q", "r", "s", "t", "u", "v", "w", "x", "y", "z">>

\* str.lower()
lower(str) ==
    [i \in 1..Len(str) |->
        IF \E k \in 1..Len(UpperCase) : UpperCase[k] = str[i]
        THEN LowerCase[CHOOSE k \in 1..Len(UpperCase) : UpperCase[k] = str[i]]
        ELSE str[i]]

\* `sub in str`
Contains(sub, str) ==
    \E i \in 0..(Len(str) - Len(sub)) : SubSeq(str, i + 1, i + Len(sub)) = sub

SearchResult(filepath, symbol) ==
    [file |-> filepath, name |-> symbol.name, type |-> symbol.type,
     lines |-> symbol.lines, signature |-> symbol.signature,
     docstring |-> symbol.docstring]

\* _search_symbol over a list of symbols: each symbol, then its children
RECURSIVE _search_symbol_skips_children_of_match(_, _, _, _)
_search_symbol_skips_children_of_match(symbols, filepath, query, symbol_type) ==
    IF symbols = <<>> THEN <<>>
    ELSE LET symbol == Head(symbols)
             hit == /\ Contains(query, lower(Chars(symbol.name)))
                    /\ (symbol_type = None \/ symbol.type = Val(symbol_type))
         IN  (IF hit THEN <<SearchResult(filepath, symbol)>>
              ELSE _search_symbol_skips_children_of_match(
                       symbol.children, filepath, query, symbol_type))
             \o _search_symbol_skips_children_of_match(
                    Tail(symbols), filepath, query, symbol_type)

RECURSIVE _search_symbol(_, _, _, _)
_search_symbol(symbols, filepath, query, symbol_type) ==
    IF symbols = <<>> THEN <<>>
    ELSE LET symbol == Head(symbols)
             hit == /\ Contains(query, lower(Chars(symbol.name)))
                    /\ (symbol_type = None \/ symbol.type = Val(symbol_type))
         IN  (IF hit THEN <<SearchResult(filepath, symbol)>> ELSE <<>>)
             \o _search_symbol(symbol.children, filepath, query, symbol_type)
             \o _search_symbol(Tail(symbols), filepath, query, symbol_type)

RECURSIVE SearchEach(_, _, _)
SearchEach(files, query_lower, symbol_type) ==
    IF files = <<>> THEN <<>>
    ELSE _search_symbol(Head(files)[2].symbols, Head(files)[1],
                        query_lower, symbol_type)
         \o SearchEach(Tail(files), query_lower, symbol_type)

find_symbol(s, query, symbol_type) ==
    LET g == get_all_files(s)
    IN  [s |-> g.s, ret |-> SearchEach(g.ret, lower(query), symbol_type)]

(***************************************************************************)
(* The project's files.  A file's bytes are one of Contents; fs[path] is    *)
(* None for a missing file, else Some([bytes, readable]).  The bytes of    *)
(* an unreadable file are never observed and are kept as 0.                *)
(***************************************************************************)
Contents == {0, 1, 2}

File(bytes, readable) == [bytes |-> bytes, readable |-> readable]

\* core/hasher.py.  sha256(...).hexdigest()[:12] keeps 48 of the digest's
\* 256 bits: the fingerprint has fewer values than there are contents.
hash_content(content) == content % HashSpace

\* open(filepath, "rb") raises for a missing or unreadable file
hash_file(files, filepath) ==
    IF files[filepath] = None \/ ~Val(files[filepath]).readable
    THEN [raised |-> TRUE, ret |-> 0]
    ELSE [raised |-> FALSE, ret |-> hash_content(Val(files[filepath]).bytes)]

\* utils/file_utils.py: count_lines
count_lines(content) == content + 1

\* Path.suffix of the file names of the model
Suffix(name) ==
    CASE name \in {"x.py", "y.py"} -> ".py"
      [] name = "r.md" -> ".md"
      [] name = "z.ts" -> ".ts"
      [] name \in {".codemap.json", "_root.codemap.json"} -> ".json"
      [] OTHER -> ""

\* utils/file_utils.py: get_language
get_language(filepath) ==
    LET suffix == Suffix(filename(filepath))
    IN  CASE suffix \in {".py", ".pyi"} -> Some("python")
          [] suffix \in {".ts", ".tsx"} -> Some("typescript")
          [] suffix \in {".js", ".jsx"} -> Some("javascript")
          [] OTHER -> None

\* Indexer._parsers, every optional grammar installed
Parsers == {"python", "typescript", "javascript", "markdown", "yaml",
            "kotlin", "swift", "c", "cpp", "html", "css"}

SymFunc == Symbol("func", "function", <<1, 5>>, None, None, <<>>)

SymGreeter ==
    Symbol("Greeter", "class", <<1, 4>>, None, None,
           <<Symbol("greet", "method", <<2, 4>>, Some(<<"(", "s", ")">>), None, <<>>)>>)

\* PythonParser.parse on the contents of the model: a module with one
\* function, a module with a class and a method, a text ast.parse rejects
parse(content) ==
    CASE content % 3 = 0 -> [raised |-> FALSE, ret |-> <<SymFunc>>]
      [] content % 3 = 1 -> [raised |-> FALSE, ret |-> <<SymGreeter>>]
      [] OTHER -> [raised |-> TRUE, ret |-> <<>>]

\* TypeScriptParser.parse on the contents of the model: tree-sitter parses
\* every text, a text with errors has no declaration to extract
TypeScriptParser_parse(content) ==
    CASE content % 3 = 0 -> [raised |-> FALSE, ret |-> <<SymFunc>>]
      [] content % 3 = 1 -> [raised |-> FALSE, ret |-> <<SymGreeter>>]
      [] OTHER -> [raised |-> FALSE, ret |-> <<>>]

\* parser.parse(content, str(filepath)) of the parser registered for the
\* language of a file of the model
parser_parse(language, content) ==
    IF language = "python" THEN parse(content) ELSE TypeScriptParser_parse(content)

\* Indexer._init_parsers: the parsers that need no grammar are always
\* registered, each tree-sitter parser only if its import succeeds
_init_parsers(tree_sitter) ==
    IF tree_sitter THEN Parsers ELSE {"python", "markdown", "yaml"}

(***************************************************************************)
(* core/indexer.py: Indexer, over its map_store `s` and the files.         *)
(* `raised` tells that the call ended by raising.  The orchestrator runs   *)
(* over persisted data it wrote itself, which always loads.                *)
(***************************************************************************)
_index_file_hashes_line_count(s, files, filepath, now) ==
    LET language == get_language(filepath)
    IN  IF language = None \/ Val(language) \notin parsers
        THEN [s |-> s, ret |-> <<>>, raised |-> FALSE]
        ELSE IF ~Val(files[filepath]).readable
        THEN [s |-> s, ret |-> <<>>, raised |-> TRUE]    \* read_text raises
        ELSE LET content == Val(files[filepath]).bytes
                 parsed == parser_parse(Val(language), content)
                 symbols == IF parsed.raised THEN <<>> ELSE parsed.ret
             IN  [s |-> MapStore_update_file(s, filepath,
                            hash_content(count_lines(content)), Val(language),
                            count_lines(content), symbols, now),
                  ret |-> symbols,
                  raised |-> FALSE]

_index_file_raises_syntax_error(s, files, filepath, now) ==
    LET language == get_language(filepath)
    IN  IF language = None \/ Val(language) \notin parsers
        THEN [s |-> s, ret |-> <<>>, raised |-> FALSE]
        ELSE IF ~Val(files[filepath]).readable
        THEN [s |-> s, ret |-> <<>>, raised |-> TRUE]    \* read_text raises
        ELSE IF parser_parse(Val(language), Val(files[filepath]).bytes).raised
        THEN [s |-> s, ret |-> <<>>, raised |-> TRUE]
        ELSE LET content == Val(files[filepath]).bytes
                 parsed == parser_parse(Val(language), content)
                 symbols == IF parsed.raised THEN <<>> ELSE parsed.ret
             IN  [s |-> MapStore_update_file(s, filepath,
                            hash_file(files, filepath).ret, Val(language),
                            count_lines(content), symbols, now),
                  ret |-> symbols,
                  raised |-> FALSE]

_index_file(s, files, filepath, now) ==
    LET language == get_language(filepath)
    IN  IF language = None \/ Val(language) \notin parsers
        THEN [s |-> s, ret |-> <<>>, raised |-> FALSE]
        ELSE IF ~Val(files[filepath]).readable
        THEN [s |-> s, ret |-> <<>>, raised |-> TRUE]    \* read_text raises
        ELSE LET content == Val(files[filepath]).bytes
                 parsed == parser_parse(Val(language), content)
                 symbols == IF parsed.raised THEN <<>> ELSE parsed.ret
             IN  [s |-> MapStore_update_file(s, filepath,
                            hash_file(files, filepath).ret, Val(language),
                            count_lines(content), symbols, now),
                  ret |-> symbols,
                  raised |-> FALSE]

Abs(n) == IF n < 0 THEN -n ELSE n

Indexer_update_file(s, files, filepath, now) ==
    IF files[filepath] = None
    THEN LET r == remove_file(s, filepath)
         IN  [s |-> save(update_stats(r.s)),
              ret |-> [removed |-> r.ret, symbols_changed |-> 0],
              raised |-> FALSE]
    ELSE LET g == get_file(s, filepath)
             old_symbol_count ==
                 IF g.ret = None THEN 0 ELSE _count_symbols(Val(g.ret).symbols)
             i == _index_file(g.s, files, filepath, now)
         IN  IF i.raised
             THEN [s |-> g.s,
                   ret |-> [removed |-> FALSE, symbols_changed |-> 0],
                   raised |-> TRUE]
             ELSE [s |-> save(update_stats(i.s)),
                   ret |-> [removed |-> FALSE,
                            symbols_changed |->
                                Abs(_count_symbols(i.ret) - old_symbol_count)],
                   raised |-> FALSE]

validate_file_exists_only(s, files, filepath) ==
    LET g == get_file(s, filepath)
    IN  [s |-> g.s, ret |-> g.ret # None /\ files[filepath] # None,
         raised |-> FALSE]

validate_file_unguarded(s, files, filepath) ==
    LET g == get_file(s, filepath)
        h == hash_file(files, filepath)
    IN  IF g.ret = None THEN [s |-> g.s, ret |-> FALSE, raised |-> FALSE]
        ELSE IF files[filepath] = None
        THEN [s |-> g.s, ret |-> FALSE, raised |-> FALSE]
        ELSE [s |-> g.s, ret |-> h.ret = Val(g.ret).hash, raised |-> h.raised]

validate_file(s, files, filepath) ==
    LET g == get_file(s, filepath)
        h == hash_file(files, filepath)
    IN  IF g.ret = None THEN [s |-> g.s, ret |-> FALSE, raised |-> FALSE]
        ELSE IF files[filepath] = None
        THEN [s |-> g.s, ret |-> FALSE, raised |-> FALSE]
        ELSE IF h.raised THEN [s |-> g.s, ret |-> FALSE, raised |-> FALSE]
        ELSE [s |-> g.s, ret |-> h.ret = Val(g.ret).hash, raised |-> FALSE]

\* Config.languages against _get_extensions_for_languages
DiscoveredSuffixes == {".py", ".pyi", ".ts", ".tsx", ".js", ".jsx"}

\* utils/file_utils.py: discover_files, as the set of files it yields
discover_files(files) ==
    {p \in DOMAIN files : files[p] # None /\ Suffix(filename(p)) \in DiscoveredSuffixes}

\* the orders in which rglob may yield the files
Orders(S) == {o \in [1..Cardinality(S) -> S] : Range(o) = S}

\* the loop of index_all: per file try _index_file, except collect the error
RECURSIVE IndexEach(_, _, _, _, _)
IndexEach(s, files, todo, now, acc) ==
    IF todo = <<>> THEN [s |-> s, ret |-> acc]
    ELSE LET r == _index_file(s, files, Head(todo), now)
         IN  IF r.raised
             THEN IndexEach(r.s, files, Tail(todo), now,
                            [acc EXCEPT !.errors = Append(@, Head(todo))])
             ELSE IndexEach(r.s, files, Tail(todo), now,
                            [acc EXCEPT !.total_files = @ + 1,
                                        !.total_symbols = @ + _count_symbols(r.ret)])

index_all(s, files, order, now) ==
    LET r == IndexEach(clear(s), files, order, now,
                       [total_files |-> 0, total_symbols |-> 0, errors |-> <<>>])
    IN  [s |-> save(update_stats(r.s)), ret |-> r.ret]

\* the stale test of validate_all for one (rel_path, entry)
IsStale(files, rel_path, entry) ==
    \/ files[rel_path] = None
    \/ hash_file(files, rel_path).raised
    \/ hash_file(files, rel_path).ret # entry.hash

validate_all_skips_deleted(s, files) ==
    LET g == get_all_files(s)
    IN  [s |-> g.s,
         ret |-> LET stale == SelectSeq(g.ret, LAMBDA f :
                                  files[f[1]] # None /\ IsStale(files, f[1], f[2]))
                 IN  [i \in 1..Len(stale) |-> stale[i][1]]]

validate_all(s, files) ==
    LET g == get_all_files(s)
    IN  [s |-> g.s,
         ret |-> LET stale == SelectSeq(g.ret, LAMBDA f : IsStale(files, f[1], f[2]))
                 IN  [i \in 1..Len(stale) |-> stale[i][1]]]

\* the loop of update_all_stale
RECURSIVE UpdateEach_aborting(_, _, _, _, _)
UpdateEach_aborting(s, files, todo, now, acc) ==
    IF todo = <<>> THEN [s |-> s, ret |-> acc]
    ELSE LET r == Indexer_update_file(s, files, Head(todo), now)
         IN  IF r.raised
             THEN [s |-> r.s, ret |-> [acc EXCEPT !.errors = Append(@, Head(todo))]]
             ELSE UpdateEach_aborting(r.s, files, Tail(todo), now,
                                      [acc EXCEPT !.updated = @ + 1])

RECURSIVE UpdateEach(_, _, _, _, _)
UpdateEach(s, files, todo, now, acc) ==
    IF todo = <<>> THEN [s |-> s, ret |-> acc]
    ELSE LET r == Indexer_update_file(s, files, Head(todo), now)
         IN  IF r.raised
             THEN UpdateEach(r.s, files, Tail(todo), now,
                             [acc EXCEPT !.errors = Append(@, Head(todo))])
             ELSE UpdateEach(r.s, files, Tail(todo), now,
                             [acc EXCEPT !.updated = @ + 1])

update_all_stale(s, files, now) ==
    LET v == validate_all(s, files)
    IN  UpdateEach(v.s, files, v.ret, now, [updated |-> 0, errors |-> <<>>])

(***************************************************************************)
(* The operations of a Store session as actions.  Every operation records  *)
(* itself in `last`; `repeated` tells whether it is the same call, with    *)
(* the same arguments, as the operation before it.                         *)
(***************************************************************************)
Paths == {<<"x.py">>, <<"a", "x.py">>, <<"a", "y.py">>}

\* the files of the project in the orchestrator's runs
SourcePaths == {<<"x.py">>, <<"a", "y.py">>, <<"a", "r.md">>}

\* (hash, language, lines, symbols) given to put
PutArgs == {<<0, "python", 1, <<>>>>, <<1, "python", 5, <<SymFunc>>>>}

Op(op, path, args, ret) == [op |-> op, path |-> path, args |-> args, ret |-> ret]

Ran(desc) ==
    /\ last' = desc
    /\ repeated' = (/\ desc.op = last.op
                    /\ desc.path = last.path
                    /\ desc.args = last.args)

\* core/watcher.py: CodeMapWatcher.__init__ and, once started, its
\* CodemapEventHandler.  `inbox` holds the events the observer thread has
\* still to dispatch, `todo` the _schedule_change calls of the dispatch in
\* progress, `locked` tells that the observer thread holds _lock, `timers`
\* are the threading.Timer threads ever started.  `time` counts the
\* entries stamped so far.  For the entry stamped t, `scheduled[t]` is the
\* entry, `windows[t]` the debounce window it was stamped in, `called[t]`
\* the number of on_change calls made with it; `superseded` are the
\* entries a later event of the same path replaced, `late` the entries
\* on_change was called with after stop(), `events` the changes the user's
\* file events may still ask to schedule.
CodeMapWatcher ==
    [started |-> FALSE, _running |-> FALSE, inbox |-> <<>>, todo |-> <<>>,
     locked |-> FALSE, _pending_changes |-> <<>>, _debounce_timer |-> None,
     timers |-> <<>>, time |-> 0, scheduled |-> <<>>, windows |-> <<>>,
     called |-> <<>>, superseded |-> {}, late |-> {}, events |-> 0]

Init ==
    /\ store = MapStore(None, NoFiles)
    /\ fs = [p \in SourcePaths |-> None]
    /\ clock = 0
    /\ last = Op("init", <<>>, <<>>, None)
    /\ repeated = FALSE
    /\ parsers = Parsers
    /\ watcher = CodeMapWatcher

Tick ==
    /\ clock < MaxClock
    /\ clock' = clock + 1
    /\ UNCHANGED <<store, fs, last, repeated, parsers, watcher>>

Put ==
    \E rel_path \in Paths, a \in PutArgs :
        /\ store' = MapStore_update_file(Begin(store), rel_path,
                                         a[1], a[2], a[3], a[4], clock)
        /\ Ran(Op("put", rel_path, a, None))
        /\ UNCHANGED <<fs, clock, parsers, watcher>>

Remove ==
    \E rel_path \in Paths :
        LET r == remove_file(Begin(store), rel_path)
        IN  /\ store' = r.s
            /\ Ran(Op("remove", rel_path, <<>>, Some(r.ret)))
            /\ UNCHANGED <<fs, clock, parsers, watcher>>

Get ==
    \E rel_path \in Paths :
        LET r == get_file(Begin(store), rel_path)
        IN  /\ store' = r.s
            /\ Ran(Op("get", rel_path, <<>>, r.ret))
            /\ UNCHANGED <<fs, clock, parsers, watcher>>

\* find_symbol / get_all_files: every listed shard is loaded
FindSymbol ==
    /\ store' = LoadListed(Begin(store))
    /\ Ran(Op("find_symbol", <<>>, <<>>, None))
    /\ UNCHANGED <<fs, clock, parsers, watcher>>

Persist ==
    /\ store' = save(Begin(store))
    /\ Ran(Op("save", <<>>, <<>>, None))
    /\ UNCHANGED <<fs, clock, parsers, watcher>>

Clear ==
    /\ store' = clear(Begin(store))
    /\ Ran(Op("clear", <<>>, <<>>, None))
    /\ UNCHANGED <<fs, clock, parsers, watcher>>

\* a new session: MapStore(root) over what is on disk
Construct ==
    /\ store' = MapStore(store.disk_manifest, store.disk_shards)
    /\ Ran(Op("MapStore", <<>>, <<>>, None))
    /\ UNCHANGED <<fs, clock, parsers, watcher>>

\* a new session: MapStore.load(root)
Load ==
    /\ store.disk_manifest # None
    /\ store' = MapStore_load(store.disk_manifest, store.disk_shards)
    /\ Ran(Op("load", <<>>, <<>>, None))
    /\ UNCHANGED <<fs, clock, parsers, watcher>>

\* Store sessions over one disk: every operation but the clock
Next ==
    \/ Put \/ Remove \/ Get \/ FindSymbol
    \/ Persist \/ Clear \/ Construct \/ Load

Spec == Init /\ [][Next]_vars

\* One store, never persisted, with the clock running: put, remove, clear
NextCore == Tick \/ Put \/ Remove \/ Clear

SpecCore == Init /\ [][NextCore]_vars

(***************************************************************************)
(* Round trip: symbols as the parsers hand them to put.  PythonParser      *)
(* passes the whole signature and docstring (python_parser.py 104-109);    *)
(* Symbol.to_dict truncates on the way to disk.                            *)
(***************************************************************************)
Str(c, n) == Some(Rep(c, n))

SymMethod == Symbol("get_user", "method", <<5, 15>>, Str("s", 3), Str("d", 4), <<>>)
SymClass == Symbol("UserService", "class", <<1, 30>>, None, Str("d", DocstringLimit),
                   <<SymMethod>>)
SymLongSignature ==
    Symbol("wide", "function", <<1, 2>>, Str("s", SignatureLimit + 1), None, <<>>)
SymLongDocstring ==
    Symbol("verbose", "function", <<1, 9>>, Str("s", SignatureLimit),
           Str("d", DocstringLimit + 1), <<>>)

RichPutArgs ==
    {<<0, "python", 1, <<>>>>,
     <<1, "python", 30, <<SymClass, SymFunc>>>>,
     <<0, "python", 2, <<SymLongSignature>>>>,
     <<1, "python", 9, <<SymLongDocstring>>>>}

RoundTripPaths == {<<"x.py">>, <<"a", "x.py">>}

PutRich ==
    \E rel_path \in RoundTripPaths, a \in RichPutArgs :
        /\ store' = MapStore_update_file(Begin(store), rel_path,
                                         a[1], a[2], a[3], a[4], clock)
        /\ Ran(Op("put", rel_path, a, None))
        /\ UNCHANGED <<fs, clock, parsers, watcher>>

\* put, persist, load into a fresh store
NextRoundTrip == Tick \/ PutRich \/ Persist \/ Load

SpecRoundTrip == Init /\ [][NextRoundTrip]_vars

(***************************************************************************)
(* The orchestrator's session: the files change under it, update and       *)
(* validate run to completion one at a time.                               *)
(***************************************************************************)
\* the bytes written to a file; a file no parser is looked up for is
\* never read by the orchestrator, one content stands for all
ContentsFor(p) == IF get_language(p) = None THEN {0} ELSE Contents

\* the file's bytes are overwritten (or the file is created)
WriteFile ==
    \E p \in DOMAIN fs : \E c \in ContentsFor(p) :
        /\ fs' = [fs EXCEPT ![p] = Some(File(c, TRUE))]
        /\ Ran(Op("write", <<>>, <<>>, None))
        /\ store' = Begin(store)
        /\ UNCHANGED <<clock, parsers, watcher>>

DeleteFile ==
    \E p \in DOMAIN fs :
        /\ fs[p] # None
        /\ fs' = [fs EXCEPT ![p] = None]
        /\ Ran(Op("delete", <<>>, <<>>, None))
        /\ store' = Begin(store)
        /\ UNCHANGED <<clock, parsers, watcher>>

\* the file loses its read permission
Chmod ==
    \E p \in DOMAIN fs :
        /\ fs[p] # None /\ Val(fs[p]).readable
        /\ fs' = [fs EXCEPT ![p] = Some(File(0, FALSE))]
        /\ Ran(Op("chmod", <<>>, <<>>, None))
        /\ store' = Begin(store)
        /\ UNCHANGED <<clock, parsers, watcher>>

Update ==
    \E p \in DOMAIN fs :
        LET r == Indexer_update_file(Begin(store), fs, p, clock)
        IN  /\ store' = r.s
            /\ Ran(Op("update", p, <<>>,
                      IF r.raised THEN None ELSE Some(r.ret)))
            /\ UNCHANGED <<fs, clock, parsers, watcher>>

Validate ==
    \E p \in SourcePaths :
        LET r == validate_file(Begin(store), fs, p)
        IN  /\ store' = r.s
            /\ Ran(Op("validate", p, <<>>,
                      IF r.raised THEN None ELSE Some(r.ret)))
            /\ UNCHANGED <<fs, clock, parsers, watcher>>

NextIndexer == WriteFile \/ DeleteFile \/ Chmod \/ Update \/ Validate

SpecIndexer == Init /\ [][NextIndexer]_vars

(***************************************************************************)
(* The orchestrator's batch runs over the changing files                   *)
(***************************************************************************)
IndexAll ==
    \E order \in Orders(discover_files(fs)) :
        LET r == index_all(Begin(store), fs, order, clock)
        IN  /\ store' = r.s
            /\ Ran(Op("index_all", <<>>, <<>>, Some(r.ret)))
            /\ UNCHANGED <<fs, clock, parsers, watcher>>

UpdateAllStale ==
    LET r == update_all_stale(Begin(store), fs, clock)
    IN  /\ store' = r.s
        /\ Ran(Op("update_all_stale", <<>>, <<>>, Some(r.ret)))
        /\ UNCHANGED <<fs, clock, parsers, watcher>>

\* a project with sources of two languages, indexed by an Indexer built
\* where the tree-sitter grammars are installed or where they are not
ReindexPaths == {<<"x.py">>, <<"a", "z.ts">>}

InitReindex ==
    /\ store = MapStore(None, NoFiles)
    /\ fs = [p \in ReindexPaths |-> None]
    /\ clock = 0
    /\ last = Op("init", <<>>, <<>>, None)
    /\ repeated = FALSE
    /\ parsers \in {_init_parsers(tree_sitter) : tree_sitter \in BOOLEAN}
    /\ watcher = CodeMapWatcher

NextReindex == WriteFile \/ DeleteFile \/ Chmod \/ IndexAll \/ Update

SpecReindex == InitReindex /\ [][NextReindex]_vars

NextBatch == WriteFile \/ DeleteFile \/ Chmod \/ IndexAll \/ UpdateAllStale

SpecBatch == Init /\ [][NextBatch]_vars

(***************************************************************************)
(* Searching and counting: one store holding files with nested symbols     *)
(***************************************************************************)
TreePutArgs ==
    {<<0, "python", 5, <<SymGreeter, SymFunc>>>>,
     <<1, "python", 30, <<SymClass>>>>}

Queries ==
    {<<>>,
     <<"g", "r", "e", "e", "t">>,
     <<"U", "S", "E", "R">>,
     <<"g", "e", "t">>,
     <<"z">>}

Kinds == {None, Some("class"), Some("method")}

PutTree ==
    \E rel_path \in RoundTripPaths, a \in TreePutArgs :
        /\ store' = MapStore_update_file(Begin(store), rel_path,
                                         a[1], a[2], a[3], a[4], clock)
        /\ Ran(Op("put", rel_path, a, None))
        /\ UNCHANGED <<fs, clock, parsers, watcher>>

Search ==
    \E query \in Queries, symbol_type \in Kinds :
        LET r == find_symbol(Begin(store), query, symbol_type)
        IN  /\ store' = r.s
            /\ Ran(Op("find_symbol", <<>>, <<query, symbol_type>>, Some(r.ret)))
            /\ UNCHANGED <<fs, clock, parsers, watcher>>

RemoveTree ==
    \E rel_path \in RoundTripPaths :
        LET r == remove_file(Begin(store), rel_path)
        IN  /\ store' = r.s
            /\ Ran(Op("remove", rel_path, <<>>, Some(r.ret)))
            /\ UNCHANGED <<fs, clock, parsers, watcher>>

RecomputeStats ==
    /\ store' = update_stats(Begin(store))
    /\ Ran(Op("update_stats", <<>>, <<>>, None))
    /\ UNCHANGED <<fs, clock, parsers, watcher>>

NextSearch == PutTree \/ RemoveTree \/ Search \/ RecomputeStats

SpecSearch == Init /\ [][NextSearch]_vars

(***************************************************************************)
(* Listing: files at the root, in sibling and in nested directories, put   *)
(* in any order and listed by get_all_files, in one store                  *)
(***************************************************************************)
ListingPaths == {<<"x.py">>, <<"a", "x.py">>, <<"b", "x.py">>, <<"a", "b", "x.py">>}

PutListed ==
    \E rel_path \in ListingPaths :
        /\ store' = MapStore_update_file(Begin(store), rel_path,
                                         1, "python", 5, <<SymFunc>>, clock)
        /\ Ran(Op("put", rel_path, <<>>, None))
        /\ UNCHANGED <<fs, clock, parsers, watcher>>

RemoveListed ==
    \E rel_path \in ListingPaths :
        LET r == remove_file(Begin(store), rel_path)
        IN  /\ store' = r.s
            /\ Ran(Op("remove", rel_path, <<>>, Some(r.ret)))
            /\ UNCHANGED <<fs, clock, parsers, watcher>>

AllEntries ==
    LET r == get_all_files(Begin(store))
    IN  /\ store' = r.s
        /\ Ran(Op("get_all_files", <<>>, <<>>, Some(r.ret)))
        /\ UNCHANGED <<fs, clock, parsers, watcher>>

NextListing == PutListed \/ RemoveListed \/ AllEntries

SpecListing == Init /\ [][NextListing]_vars

(***************************************************************************)
(* Sessions over a .codemap directory whose files get damaged              *)
(***************************************************************************)
PutFile ==
    \E rel_path \in RoundTripPaths :
        /\ store' = MapStore_update_file(Begin(store), rel_path,
                                         1, "python", 5, <<SymFunc>>, clock)
        /\ Ran(Op("put", rel_path, <<>>, None))
        /\ UNCHANGED <<fs, clock, parsers, watcher>>

GetFile ==
    \E rel_path \in RoundTripPaths :
        LET r == get_file(Begin(store), rel_path)
        IN  /\ store' = r.s
            /\ Ran(Op("get", rel_path, <<>>, r.ret))
            /\ UNCHANGED <<fs, clock, parsers, watcher>>

\* a persisted shard file is overwritten with malformed data
CorruptShard ==
    \E directory \in DOMAIN store.disk_shards, kind \in Malformations :
        /\ store' = [Begin(store) EXCEPT !.disk_shards[directory] = Malformed(kind)]
        /\ Ran(Op("corrupt", <<>>, <<>>, None))
        /\ UNCHANGED <<fs, clock, parsers, watcher>>

\* the persisted manifest is overwritten with malformed data
CorruptManifest ==
    \E kind \in Malformations :
        /\ store.disk_manifest # None
        /\ store' = [Begin(store) EXCEPT !.disk_manifest = Some(Malformed(kind))]
        /\ Ran(Op("corrupt", <<>>, <<>>, None))
        /\ UNCHANGED <<fs, clock, parsers, watcher>>

NextCorrupt ==
    \/ PutFile \/ GetFile \/ Persist \/ Construct
    \/ CorruptShard \/ CorruptManifest

SpecCorrupt == Init /\ [][NextCorrupt]_vars

(***************************************************************************)
(* What a caller observes of a store                                       *)
(***************************************************************************)
Dirs == {parent(p) : p \in Paths}

\* the FileEntries of a directory's shard, as get and all_entries see them
Shard(s, directory) ==
    LET s1 == _load_dir_map(s, directory)
    IN  IF s1.raised THEN NoFiles ELSE s1.dir_maps[directory].files

ManifestDirs(s) == Range(manifest(s).directories)

Entries(s) == [p \in Paths |-> get_file(s, p).ret]

(***************************************************************************)
(* C1: no persisted directory-shard file contains zero FileEntries.        *)
(* Refuted by get (or remove) on a never-indexed directory followed by     *)
(* persist: _load_dir_map caches an empty DirectoryMap and save writes     *)
(* every cached one.                                                       *)
(***************************************************************************)
C1_NoEmptyShardOnDisk ==
    \A d \in DOMAIN store.disk_shards : DOMAIN store.disk_shards[d].files # {}

(***************************************************************************)
(* C2: after any sequence of put, remove and clear the manifest's          *)
(* directory set is exactly the set of directories whose shard holds at    *)
(* least one FileEntry, and get returns a FileEntry only for paths whose   *)
(* parent directory is listed.                                             *)
(***************************************************************************)
C2_ManifestListsNonEmptyShards ==
    /\ ManifestDirs(store) = {d \in Dirs : DOMAIN Shard(store, d) # {}}
    /\ \A p \in Paths :
          get_file(store, p).ret # None => parent(p) \in ManifestDirs(store)

C2_Witness ==
    /\ last.op = "remove" /\ last.ret = Some(TRUE)
    /\ ManifestDirs(store) = {<<>>}
    /\ get_file(store, <<"x.py">>).ret # None
    /\ DOMAIN Shard(store, <<"a">>) = {}

(***************************************************************************)
(* C3: when remove(path) deletes the last FileEntry of a shard, the        *)
(* shard's persisted file no longer exists and the directory is no longer  *)
(* listed; when other entries remain, the directory stays listed and the   *)
(* shard (cached, and its file if it had one) is kept.                     *)
(***************************************************************************)
C3_RemoveLastPrunes ==
    (last.op = "remove" /\ last.ret = Some(TRUE)) =>
        LET d == parent(last.path)
        IN  IF DOMAIN Shard(store, d) = {}
            THEN /\ d \notin DOMAIN store.disk_shards
                 /\ d \notin ManifestDirs(store)
            ELSE /\ d \in ManifestDirs(store)
                 /\ d \in DOMAIN store.dir_maps
                 /\ filename(last.path) \notin DOMAIN store.dir_maps[d].files
                 /\ d \notin store.unlinked

\* the last entry of a persisted shard was removed, and its file unlinked
C3_Witness ==
    /\ last.op = "remove" /\ last.ret = Some(TRUE)
    /\ store.unlinked = {parent(last.path)}
    /\ parent(last.path) = <<"a">>
    /\ <<>> \in DOMAIN store.disk_shards

(***************************************************************************)
(* C5: persist() writes back a cached shard only if it was mutated (by     *)
(* put or remove) since it was loaded in this session.  Refuted: save      *)
(* writes every cached shard, also one that get only read.                 *)
(***************************************************************************)
C5_PersistWritesOnlyMutated ==
    last.op = "save" => store.written \subseteq store.mutated

(***************************************************************************)
(* C10 as claimed: put with identical inputs, applied twice, leaves every  *)
(* FileEntry and the manifest's directory set as after applying it once.   *)
(* Refuted: the second put stamps a new indexed_at.                        *)
(***************************************************************************)
C10_PutIdempotent ==
    [][(last'.op = "put" /\ repeated') =>
           /\ Entries(store') = Entries(store)
           /\ ManifestDirs(store') = ManifestDirs(store)]_vars

SansTime(entry) ==
    IF entry = None THEN None ELSE Some([Val(entry) EXCEPT !.indexed_at = 0])

(***************************************************************************)
(* C10 amended: put with identical inputs, applied twice, leaves the       *)
(* Store as after applying it once except for the indexed_at of the        *)
(* FileEntry stored for path: its fingerprint, language, line count and    *)
(* symbols, every other FileEntry and the manifest's directory list are    *)
(* the same.                                                               *)
(***************************************************************************)
C10_PutIdempotentButTime ==
    [][(last'.op = "put" /\ repeated') =>
           /\ \A p \in Paths \ {last'.path} :
                 Entries(store')[p] = Entries(store)[p]
           /\ SansTime(Entries(store')[last'.path])
                 = SansTime(Entries(store)[last'.path])
           /\ manifest(store').directories = manifest(store).directories]_vars

\* the same put ran twice, the clock having advanced in between
C10_Witness ==
    /\ last.op = "put" /\ repeated
    /\ Val(Entries(store)[last.path]).indexed_at = MaxClock
    /\ MaxClock > 0

(***************************************************************************)
(* C6: round trip.  After persist() followed by loading a fresh Store,     *)
(* get(path) returns for every indexed path a FileEntry identical to the   *)
(* one get(path) returned before persisting.  Refuted: a signature longer  *)
(* than 100 characters or a docstring longer than 150 comes back cut.      *)
(***************************************************************************)
C6_RoundTrip ==
    [][(last.op = "save" /\ last'.op = "load") =>
           \A p \in RoundTripPaths :
               get_file(store', p).ret = get_file(store, p).ret]_vars

\* a parser is looked up and found for the file
Indexable(p) == get_language(p) # None /\ Val(get_language(p)) \in parsers

Readable(files, p) == files[p] # None /\ Val(files[p]).readable

\* update(path) ran to completion on a file that is on disk
Updated(op, files) == op.op = "update" /\ op.ret # None /\ files[op.path] # None

(***************************************************************************)
(* C4: a single-file Indexer.update(path) writes only the shard that owns  *)
(* path plus the root manifest.  Refuted: update_stats loads every listed  *)
(* shard and save rewrites every cached one.                               *)
(***************************************************************************)
C4_UpdateWritesOneShard ==
    (Updated(last, fs) /\ Indexable(last.path)) =>
        store.written \subseteq {parent(last.path)}

(***************************************************************************)
(* C7 as claimed: for every indexed path, once the file's bytes are        *)
(* overwritten (with other bytes) and no reindex has happened,             *)
(* validate(path) is false; after a subsequent update(path) it is true.    *)
(* Refuted: the new bytes may have the fingerprint of the old ones.        *)
(***************************************************************************)
C7_Staleness ==
    [][/\ \A p \in SourcePaths :
            (/\ get_file(store, p).ret # None
             /\ Readable(fs, p) /\ Readable(fs', p)
             /\ Val(fs'[p]).bytes # Val(fs[p]).bytes)
            => ~validate_file(store', fs', p).ret
       /\ (Updated(last', fs') /\ get_file(store', last'.path).ret # None)
            => validate_file(store', fs', last'.path).ret]_vars

(***************************************************************************)
(* C7 amended: for every indexed path, once the file's bytes are           *)
(* overwritten with bytes whose fingerprint differs from the stored one    *)
(* and no reindex has happened, validate(path) is false; after a           *)
(* subsequent update(path) completes it is true again.                     *)
(***************************************************************************)
C7_StalenessByFingerprint ==
    [][/\ \A p \in SourcePaths :
            (/\ get_file(store, p).ret # None
             /\ Readable(fs, p) /\ Readable(fs', p)
             /\ Val(fs'[p]).bytes # Val(fs[p]).bytes
             /\ hash_content(Val(fs'[p]).bytes) # Val(get_file(store, p).ret).hash)
            => ~validate_file(store', fs', p).ret
       /\ (Updated(last', fs') /\ get_file(store', last'.path).ret # None)
            => validate_file(store', fs', last'.path).ret]_vars

\* an indexed file was just overwritten and is stale
C7_Witness ==
    /\ last.op = "write"
    /\ \E p \in SourcePaths :
          /\ get_file(store, p).ret # None
          /\ Readable(fs, p)
          /\ hash_content(Val(fs[p]).bytes) # Val(get_file(store, p).ret).hash
          /\ ~validate_file(store, fs, p).ret

(***************************************************************************)
(* C8: validate(path) returns true iff the path has a FileEntry, the file  *)
(* exists and its current fingerprint equals the stored one; a failure to  *)
(* compute the fingerprint yields false and is never raised.               *)
(***************************************************************************)
C8_ValidateIff ==
    /\ \A p \in SourcePaths :
          LET r == validate_file(store, fs, p)
              entry == get_file(store, p).ret
          IN  /\ ~r.raised
              /\ r.ret <=> (/\ entry # None
                            /\ fs[p] # None
                            /\ Val(fs[p]).readable
                            /\ hash_content(Val(fs[p]).bytes) = Val(entry).hash)
    /\ last.op = "validate" =>
          last.ret = Some(validate_file(store, fs, last.path).ret)

\* validate ran on an indexed file whose fingerprint cannot be computed
C8_Witness ==
    /\ last.op = "validate" /\ last.ret = Some(FALSE)
    /\ get_file(store, last.path).ret # None
    /\ fs[last.path] # None /\ ~Val(fs[last.path]).readable

(***************************************************************************)
(* C9 as claimed: update(path) twice in a row on an unchanged file leaves  *)
(* after the second call a FileEntry with the fingerprint and symbol tree  *)
(* of the first, and validate(path) is true after either call.  Refuted    *)
(* by a file no language is known for: update stores nothing.              *)
(***************************************************************************)
C9_UpdateIdempotent ==
    [][Updated(last', fs') =>
           LET p == last'.path
               before == get_file(store, p).ret
               after == get_file(store', p).ret
           IN  /\ validate_file(store', fs', p).ret
               /\ repeated' =>
                      /\ before # None /\ after # None
                      /\ Val(after).hash = Val(before).hash
                      /\ Val(after).symbols = Val(before).symbols]_vars

(***************************************************************************)
(* C9 amended: for a file whose extension maps to a language with a        *)
(* registered parser, update(path) twice in a row on the unchanged file    *)
(* leaves after the second call a FileEntry with the fingerprint and       *)
(* symbol tree of the first, and validate(path) is true after either.      *)
(***************************************************************************)
C9_UpdateIdempotentIfParsed ==
    [][(Updated(last', fs') /\ Indexable(last'.path)) =>
           LET p == last'.path
               before == get_file(store, p).ret
               after == get_file(store', p).ret
           IN  /\ validate_file(store', fs', p).ret
               /\ repeated' =>
                      /\ before # None /\ after # None
                      /\ Val(after).hash = Val(before).hash
                      /\ Val(after).symbols = Val(before).symbols]_vars

\* update ran twice in a row on an unchanged python file
C9_Witness ==
    /\ Updated(last, fs) /\ repeated
    /\ Indexable(last.path)
    /\ get_file(store, last.path).ret # None

Unreadable(files) == {p \in DOMAIN files : files[p] # None /\ ~Val(files[p]).readable}

NoRepeat(seq) == Cardinality(Range(seq)) = Len(seq)

(***************************************************************************)
(* C12: when the parser reports a syntax failure for a file, the           *)
(* orchestrator still stores a FileEntry for it (fingerprint, language,    *)
(* line count) with zero symbols and goes on to index the remaining        *)
(* files; the run is not aborted.                                          *)
(***************************************************************************)
C12_SyntaxFailureStoresEmptyEntry ==
    last.op = "index_all" =>
        \A p \in discover_files(fs) :
            Readable(fs, p) =>
                LET entry == get_file(store, p).ret
                    bytes == Val(fs[p]).bytes
                IN  /\ entry # None
                    /\ p \notin Range(Val(last.ret).errors)
                    /\ parse(bytes).raised =>
                          /\ Val(entry).symbols = <<>>
                          /\ Val(entry).hash = hash_content(bytes)
                          /\ Val(entry).language = Val(get_language(p))
                          /\ Val(entry).lines = count_lines(bytes)

\* index_all ran over a file with a syntax error and a file with symbols
C12_Witness ==
    /\ last.op = "index_all"
    /\ Val(last.ret).total_files = 2 /\ Val(last.ret).total_symbols > 0
    /\ \E p \in discover_files(fs) :
          /\ Readable(fs, p) /\ parse(Val(fs[p]).bytes).raised
          /\ get_file(store, p).ret # None

(***************************************************************************)
(* C13: in index_all and update_all_stale a failure on one file never      *)
(* aborts the batch: every remaining file is still processed, and each     *)
(* file that failed appears exactly once in the returned errors and is     *)
(* not counted as succeeded.                                               *)
(***************************************************************************)
C13_BatchNeverAborts ==
    [][/\ last'.op = "index_all" =>
            LET ret == Val(last'.ret)
                found == discover_files(fs)
            IN  /\ Range(ret.errors) = found \cap Unreadable(fs)
                /\ NoRepeat(ret.errors)
                /\ ret.total_files = Cardinality(found) - Len(ret.errors)
                /\ \A p \in found \ Unreadable(fs) :
                       validate_file(store', fs, p).ret
       /\ last'.op = "update_all_stale" =>
            LET ret == Val(last'.ret)
                stale == Range(validate_all(store, fs).ret)
            IN  /\ Range(ret.errors) = stale \cap Unreadable(fs)
                /\ NoRepeat(ret.errors)
                /\ ret.updated = Cardinality(stale) - Len(ret.errors)
                /\ \A p \in stale \ Unreadable(fs) :
                       IF fs[p] = None
                       THEN get_file(store', p).ret = None
                       ELSE validate_file(store', fs, p).ret]_vars

\* update_all_stale met a file it could not read and updated another
C13_Witness ==
    /\ last.op = "update_all_stale"
    /\ Val(last.ret).errors # <<>>
    /\ Val(last.ret).updated > 0

(***************************************************************************)
(* C14: after update_all_stale() returns with an empty errors list no      *)
(* indexed path is stale (validate_all reports nothing, every remaining    *)
(* entry's file exists with a matching fingerprint), and the returned      *)
(* updated count is the number of paths the sweep reported before.         *)
(***************************************************************************)
C14_UpdateAllStaleLeavesNoneStale ==
    [][(last'.op = "update_all_stale" /\ Val(last'.ret).errors = <<>>) =>
           /\ validate_all(store', fs').ret = <<>>
           /\ \A p \in SourcePaths :
                  get_file(store', p).ret # None => validate_file(store', fs', p).ret
           /\ Val(last'.ret).updated = Len(validate_all(store, fs).ret)]_vars

\* update_all_stale updated two stale paths without error
C14_Witness ==
    /\ last.op = "update_all_stale"
    /\ Val(last.ret).errors = <<>>
    /\ Val(last.ret).updated = 2

\* the positions of the nodes of a symbol forest: <<i>> is the i-th root,
\* <<i, j>> the j-th child of the i-th root, and so on
RECURSIVE Positions(_)
Positions(symbols) ==
    UNION {{<<i>>} \cup {<<i>> \o q : q \in Positions(symbols[i].children)} :
           i \in 1..Len(symbols)}

RECURSIVE NodeAt(_, _)
NodeAt(symbols, pos) ==
    IF Len(pos) = 1 THEN symbols[pos[1]]
    ELSE NodeAt(symbols[pos[1]].children, Tail(pos))

\* the files of the shards the manifest lists
ListedFiles(s) ==
    {p \in Paths : parent(p) \in ManifestDirs(s) /\ get_file(s, p).ret # None}

\* the (file, node) pairs a search has to report
Hits(s, query, symbol_type) ==
    UNION {{<<p, pos>> : pos \in
               {q \in Positions(Val(get_file(s, p).ret).symbols) :
                   LET node == NodeAt(Val(get_file(s, p).ret).symbols, q)
                   IN  /\ Contains(lower(query), lower(Chars(node.name)))
                       /\ (symbol_type = None \/ node.type = Val(symbol_type))}} :
           p \in ListedFiles(s)}

ReportOf(s, hit) ==
    LET node == NodeAt(Val(get_file(s, hit[1]).ret).symbols, hit[2])
    IN  [file |-> hit[1], name |-> node.name, type |-> node.type,
         lines |-> node.lines, signature |-> node.signature,
         docstring |-> node.docstring]

Occurrences(seq, x) == Cardinality({i \in DOMAIN seq : seq[i] = x})

(***************************************************************************)
(* C15: find_symbol(query, kind) returns exactly one result for every      *)
(* symbol node, at any depth, of every file of every listed shard, whose   *)
(* name contains query case-insensitively and whose kind equals the        *)
(* filter when given; a parent's match or mismatch never suppresses its    *)
(* children's; each result carries the file's path and the line range.     *)
(***************************************************************************)
C15_FindSymbolReportsEveryNodeOnce ==
    last.op = "find_symbol" =>
        LET ret == Val(last.ret)
            hits == Hits(store, last.args[1], last.args[2])
        IN  /\ Len(ret) = Cardinality(hits)
            /\ \A h \in hits :
                  Occurrences(ret, ReportOf(store, h))
                      = Cardinality({g \in hits :
                                        ReportOf(store, g) = ReportOf(store, h)})

\* a search reported a class and, independently, its method
C15_Witness ==
    /\ last.op = "find_symbol"
    /\ \E i, j \in DOMAIN Val(last.ret) :
          /\ Val(last.ret)[i].name = "Greeter"
          /\ Val(last.ret)[j].name = "greet"
          /\ Val(last.ret)[i].file = Val(last.ret)[j].file
    /\ Cardinality(ListedFiles(store)) > 1

(***************************************************************************)
(* C16: after recompute_stats() the manifest's total file count is the     *)
(* number of FileEntries across all shards and its total symbol count is   *)
(* the number of symbol nodes at every depth of every tree.                *)
(***************************************************************************)
C16_StatsCountEveryNode ==
    last.op = "update_stats" =>
        LET indexed == {p \in Paths : get_file(store, p).ret # None}
            nodes == UNION {{<<p, q>> : q \in
                               Positions(Val(get_file(store, p).ret).symbols)} :
                            p \in indexed}
        IN  manifest(store).stats =
                Some([total_files |-> Cardinality(indexed),
                      total_symbols |-> Cardinality(nodes)])

\* stats were recomputed over several files with nested symbols
C16_Witness ==
    /\ last.op = "update_stats"
    /\ Val(manifest(store).stats).total_files = 2
    /\ Val(manifest(store).stats).total_symbols = 5

(***************************************************************************)
(* C17: after clear(), whatever preceded it, no persisted index state      *)
(* remains on disk and the in-memory caches are empty: get(path) is None   *)
(* for every path, all_entries() yields nothing and the manifest's         *)
(* directory set is empty.                                                 *)
(***************************************************************************)
C17_ClearLeavesNothing ==
    last.op = "clear" =>
        /\ store.disk_manifest = None
        /\ DOMAIN store.disk_shards = {}
        /\ DOMAIN store.dir_maps = {}
        /\ \A p \in Paths : get_file(store, p).ret = None
        /\ get_all_files(store).ret = <<>>
        /\ ManifestDirs(store) = {}

\* clear deleted the persisted shards of two directories
C17_Witness ==
    /\ last.op = "clear"
    /\ store.unlinked = {<<>>, <<"a">>}

(***************************************************************************)
(* C19: all_entries() yields each indexed file exactly once: the yielded   *)
(* paths are exactly the paths get(path) returns a FileEntry for, for      *)
(* files at the root, in sibling and in nested directories, whatever the   *)
(* order in which they were put.                                           *)
(***************************************************************************)
C19_AllEntriesYieldsEachOnce ==
    last.op = "get_all_files" =>
        LET ret == Val(last.ret)
            yielded == [i \in 1..Len(ret) |-> ret[i][1]]
        IN  /\ NoRepeat(yielded)
            /\ Range(yielded) =
                  {p \in ListingPaths : get_file(store, p).ret # None}
            /\ \A i \in 1..Len(ret) :
                  get_file(store, ret[i][1]).ret = Some(ret[i][2])

\* all four files were listed, the nested directory put before its parent
C19_Witness ==
    /\ last.op = "get_all_files"
    /\ Len(Val(last.ret)) = 4
    /\ \E i, j \in 1..4 :
          /\ i < j
          /\ Val(last.ret)[i][1] = <<"a", "b", "x.py">>
          /\ Val(last.ret)[j][1] = <<"a", "x.py">>

(***************************************************************************)
(* C20: remove(path) returns true exactly when path had a FileEntry, and   *)
(* afterwards get(path) is None; when it returns false every FileEntry,    *)
(* the manifest's directory set and every persisted file are as before.    *)
(***************************************************************************)
C20_RemoveReportsPresence ==
    [][last'.op = "remove" =>
           LET p == last'.path
               had == get_file(store, p).ret # None
           IN  /\ last'.ret = Some(had)
               /\ get_file(store', p).ret = None
               /\ ~had =>
                      /\ Entries(store') = Entries(store)
                      /\ ManifestDirs(store') = ManifestDirs(store)
                      /\ store'.disk_shards = store.disk_shards
                      /\ store'.disk_manifest = store.disk_manifest]_vars

\* remove found nothing to remove in a persisted index that holds files
C20_Witness ==
    /\ last.op = "remove" /\ last.ret = Some(FALSE)
    /\ store.disk_manifest # None
    /\ \E p \in Paths : get_file(store, p).ret # None
    /\ parent(last.path) \notin ManifestDirs(store)

(***************************************************************************)
(* C18: loading a shard or the manifest whose persisted data is malformed  *)
(* in any way (invalid JSON, wrong top-level shape, missing or wrongly     *)
(* typed fields) never raises: it is treated as absent/empty and the       *)
(* Store stays usable.  Refuted: only JSONDecodeError and KeyError are     *)
(* caught; a top-level JSON array makes from_dict raise AttributeError.    *)
(***************************************************************************)
C18_MalformedDataNeverRaises == ~store.raised

(***************************************************************************)
(* parsers/treesitter_base.py: the configuration-driven extraction engine. *)
(* A concrete-tree node is [type, text, start_row, end_row, children]; the *)
(* text of an identifier is a string, the text of a comment or of a        *)
(* parameter list a sequence of characters.  prev_sibling is the node      *)
(* before it in its parent's children.  A Symbol's children=None is <<>>.  *)
(***************************************************************************)
Node(type, text, start_row, end_row, children) ==
    [type |-> type, text |-> text, start_row |-> start_row,
     end_row |-> end_row, children |-> children]

NodeMapping(symbol_type, name_child, signature_child, body_child, is_async_check) ==
    [symbol_type |-> symbol_type, name_child |-> name_child,
     signature_child |-> signature_child, body_child |-> body_child,
     is_async_check |-> is_async_check]

\* parsers/rust_parser.py: _is_async_rust
_is_async_rust(node) ==
    \E i \in DOMAIN node.children : node.children[i].type = "async"

\* parsers/rust_parser.py: RUST_CONFIG.  name_child is the list the engine
\* turns a single name into; is_async_check tells whether a check is set.
RUST_CONFIG ==
    [node_mappings |->
        [t \in {"function_item", "struct_item", "enum_item", "trait_item",
                "impl_item", "mod_item"} |->
            CASE t = "function_item" ->
                    NodeMapping("function", <<"identifier">>, Some("parameters"),
                                None, TRUE)
              [] t = "struct_item" ->
                    NodeMapping("struct", <<"type_identifier">>, None,
                                Some("field_declaration_list"), FALSE)
              [] t = "enum_item" ->
                    NodeMapping("enum", <<"type_identifier">>, None,
                                Some("enum_variant_list"), FALSE)
              [] t = "trait_item" ->
                    NodeMapping("trait", <<"type_identifier">>, None,
                                Some("declaration_list"), FALSE)
              [] t = "impl_item" ->
                    NodeMapping("impl", <<"type_identifier">>, None,
                                Some("declaration_list"), FALSE)
              [] t = "mod_item" ->
                    NodeMapping("module", <<"identifier">>, None,
                                Some("declaration_list"), FALSE)],
     export_wrappers |-> {},
     comment_types |-> {"line_comment", "block_comment"}]

\* the same table in a configuration that names an export wrapper
WRAPPING_CONFIG == [RUST_CONFIG EXCEPT !.export_wrappers = {"export_statement"}]

\* f"async_{symbol_type}" for the kinds of the table
AsyncKind(symbol_type) ==
    CASE symbol_type = "function" -> "async_function"
      [] symbol_type = "method" -> "async_method"
      [] OTHER -> "async_other"

_find_child(node, child_type) ==
    LET found == {i \in DOMAIN node.children : node.children[i].type = child_type}
    IN  IF found = {} THEN None
        ELSE Some(node.children[CHOOSE i \in found : \A j \in found : i <= j])

_get_node_text(node) == node.text

Anonymous == "<anonymous>"

\* _extract_name over the list of candidate child types
RECURSIVE _extract_name(_, _)
_extract_name(node, name_children) ==
    IF name_children = <<>> THEN Anonymous
    ELSE LET name_node == _find_child(node, Head(name_children))
         IN  IF name_node # None THEN _get_node_text(Val(name_node))
             ELSE _extract_name(node, Tail(name_children))

_extract_signature(node, mapping) ==
    IF mapping.signature_child = None THEN None
    ELSE LET sig_node == _find_child(node, Val(mapping.signature_child))
             return_node == IF _find_child(node, "return_type") # None
                            THEN _find_child(node, "return_type")
                            ELSE _find_child(node, "type_annotation")
         IN  IF sig_node = None THEN None
             ELSE IF return_node = None
             THEN Some(_get_node_text(Val(sig_node)))
             ELSE Some(_get_node_text(Val(sig_node)) \o <<" ", ":", " ">>
                       \o _get_node_text(Val(return_node)))

StartsWith(str, prefix) ==
    Len(str) >= Len(prefix) /\ SubSeq(str, 1, Len(prefix)) = prefix

\* str[n:]
From(str, n) == SubSeq(str, n + 1, Len(str))

\* str[:n]
UpTo(str, n) == IF Len(str) > n THEN SubSeq(str, 1, n) ELSE str

RECURSIVE SplitLines(_, _)
SplitLines(str, line) ==
    IF str = <<>> THEN <<line>>
    ELSE IF Head(str) = "\n" THEN <<line>> \o SplitLines(Tail(str), <<>>)
    ELSE SplitLines(Tail(str), Append(line, Head(str)))

RECURSIVE lstrip_stars(_)
lstrip_stars(str) ==
    IF str # <<>> /\ Head(str) = "*" THEN lstrip_stars(Tail(str)) ELSE str

RECURSIVE JoinLines(_)
JoinLines(lines) ==
    IF lines = <<>> THEN <<>>
    ELSE IF Len(lines) = 1 THEN lines[1]
    ELSE lines[1] \o <<" ">> \o JoinLines(Tail(lines))

_clean_comment(comment) ==
    IF comment = <<>> THEN None
    ELSE IF StartsWith(comment, <<"/", "*", "*">>)
    THEN LET inner == strip(SubSeq(comment, 4, Len(comment) - 2))
             raw == SplitLines(inner, <<>>)
             cleaned == [i \in DOMAIN raw |-> strip(lstrip_stars(strip(raw[i])))]
             lines == SelectSeq(cleaned,
                                LAMBDA l : l # <<>> /\ ~StartsWith(l, <<"@">>))
         IN  IF lines = <<>> THEN None
             ELSE Some(UpTo(JoinLines(lines), DocstringLimit))
    ELSE IF StartsWith(comment, <<"/", "/", "/">>)
    THEN Some(UpTo(strip(From(comment, 3)), DocstringLimit))
    ELSE IF StartsWith(comment, <<"/", "/">>)
    THEN Some(UpTo(strip(From(comment, 2)), DocstringLimit))
    ELSE IF StartsWith(comment, <<"#">>)
    THEN Some(UpTo(strip(From(comment, 1)), DocstringLimit))
    ELSE IF strip(comment) = <<>> THEN None
    ELSE Some(UpTo(strip(comment), DocstringLimit))

\* _extract_docstring of the i-th of `siblings`
_extract_docstring(config, siblings, i) ==
    IF i > 1 /\ siblings[i - 1].type \in config.comment_types
    THEN _clean_comment(_get_node_text(siblings[i - 1]))
    ELSE None

\* `if symbol.type == "function": ... elif symbol.type == "async_function": ...`
Retagged_keeps_async(symbol) ==
    IF symbol.type = "function" THEN [symbol EXCEPT !.type = "method"]
    ELSE symbol

Retagged(symbol) ==
    IF symbol.type = "function" THEN [symbol EXCEPT !.type = "method"]
    ELSE IF symbol.type = "async_function"
    THEN [symbol EXCEPT !.type = "async_method"]
    ELSE symbol

RECURSIVE _extract_symbol(_, _, _)
RECURSIVE _extract_children(_, _)
RECURSIVE ChildrenFrom(_, _, _)

\* the loop of _extract_children from the i-th child of the body on
ChildrenFrom(config, body_node, i) ==
    IF i > Len(body_node.children) THEN <<>>
    ELSE LET symbol ==
                 IF body_node.children[i].type \in DOMAIN config.node_mappings
                 THEN _extract_symbol(config, body_node.children, i)
                 ELSE None
         IN  (IF symbol = None THEN <<>> ELSE <<Retagged(Val(symbol))>>)
             \o ChildrenFrom(config, body_node, i + 1)

_extract_children(config, body_node) == ChildrenFrom(config, body_node, 1)

\* _extract_symbol of the i-th of `siblings`: None, or the Symbol
_extract_symbol(config, siblings, i) ==
    LET node == siblings[i]
    IN  IF node.type \notin DOMAIN config.node_mappings THEN None
        ELSE LET mapping == config.node_mappings[node.type]
                 name == _extract_name(node, mapping.name_child)
                 symbol_type ==
                     IF mapping.is_async_check /\ _is_async_rust(node)
                     THEN AsyncKind(mapping.symbol_type)
                     ELSE mapping.symbol_type
                 body == IF mapping.body_child = None THEN None
                         ELSE _find_child(node, Val(mapping.body_child))
                 children == IF body = None THEN <<>>
                             ELSE _extract_children(config, Val(body))
             IN  IF name = "" THEN None
                 ELSE Some(Symbol(name, symbol_type,
                                  <<node.start_row + 1, node.end_row + 1>>,
                                  _extract_signature(node, mapping),
                                  _extract_docstring(config, siblings, i),
                                  children))

RECURSIVE WrapperFrom(_, _, _)
WrapperFrom(config, node, i) ==
    IF i > Len(node.children) THEN <<>>
    ELSE LET symbol ==
                 IF node.children[i].type \in DOMAIN config.node_mappings
                 THEN _extract_symbol(config, node.children, i)
                 ELSE None
         IN  (IF symbol = None THEN <<>> ELSE <<Val(symbol)>>)
             \o WrapperFrom(config, node, i + 1)

_extract_from_wrapper(config, node) == WrapperFrom(config, node, 1)

RECURSIVE SymbolsFrom(_, _, _)
SymbolsFrom(config, node, i) ==
    IF i > Len(node.children) THEN <<>>
    ELSE LET child == node.children[i]
             symbol == IF child.type \in DOMAIN config.node_mappings
                       THEN _extract_symbol(config, node.children, i)
                       ELSE None
         IN  (IF child.type \in DOMAIN config.node_mappings
              THEN (IF symbol = None THEN <<>> ELSE <<Val(symbol)>>)
              ELSE IF child.type \in config.export_wrappers
              THEN _extract_from_wrapper(config, child)
              ELSE <<>>)
             \o SymbolsFrom(config, node, i + 1)

_extract_symbols(config, node) == SymbolsFrom(config, node, 1)

\* TreeSitterParser.parse, from the tree the grammar produced
TreeSitterParser_parse(config, root_node) == _extract_symbols(config, root_node)

(***************************************************************************)
(* The engine's inputs: the trees tree-sitter hands over for small Rust    *)
(* sources, and the symbols to_dict serializes                             *)
(***************************************************************************)
Leaf(type, text) == Node(type, text, 0, 0, <<>>)

Identifier(name) == Leaf("identifier", name)

Parameters == Leaf("parameters", <<"(", "x", ")">>)

\* `/// doc`
DocComment == Leaf("line_comment", <<"/", "/", "/", " ", "d", "o", "c">>)

\* a JSDoc-style block: `/** d`, ` * @x`, ` */`
BlockComment ==
    Leaf("block_comment",
         <<"/", "*", "*", " ", "d", "\n", " ", "*", " ", "@", "x", "\n",
           " ", "*", "/">>)

\* `fn run(x) {}`, `async fn spawn(x) {}`; name None: no identifier child;
\* name "": an identifier the grammar inserted as MISSING (empty text)
FunctionItem(name, async) ==
    Node("function_item", <<>>, 1, 3,
         (IF async THEN <<Leaf("async", <<>>)>> ELSE <<>>)
         \o <<Leaf("fn", <<>>)>>
         \o (IF name = None THEN <<>> ELSE <<Identifier(Val(name))>>)
         \o <<Parameters, Leaf("block", <<>>)>>)

FnRun == FunctionItem(Some("run"), FALSE)
FnSpawn == FunctionItem(Some("spawn"), TRUE)
FnUnnamed == FunctionItem(None, FALSE)
FnMissingName == FunctionItem(Some(""), FALSE)

Functions == {FnRun, FnSpawn, FnUnnamed}

\* the items of a body
Members ==
    {<<>>} \cup {<<f>> : f \in Functions}
    \cup {<<f, g>> : f \in Functions, g \in Functions}
    \cup {<<DocComment, f>> : f \in Functions}

DeclarationList(members) == Node("declaration_list", <<>>, 0, 9, members)

\* `impl Job { ... }`; name None: no type_identifier child
ImplItem(name, members) ==
    Node("impl_item", <<>>, 0, 9,
         <<Leaf("impl", <<>>)>>
         \o (IF name = None THEN <<>> ELSE <<Leaf("type_identifier", Val(name))>>)
         \o <<DeclarationList(members)>>)

\* `mod jobs { ... }`
ModItem(members) ==
    Node("mod_item", <<>>, 0, 9,
         <<Leaf("mod", <<>>), Identifier("jobs"), DeclarationList(members)>>)

\* a node with no rule of its own around other nodes
Wrap(type, children) == Node(type, <<>>, 0, 9, children)

Impls == {ImplItem(n, m) : n \in {Some("Job"), None}, m \in Members}

Mods ==
    {ModItem(<<x>>) :
        x \in Functions
              \cup {ImplItem(Some("Job"), <<f>>) : f \in Functions}
              \cup {ModItem(<<FnSpawn>>)}}

Wrapped ==
    {Wrap(t, <<x>>) :
        t \in {"const_item", "export_statement"},
        x \in Functions
              \cup {Wrap(u, <<FnRun>>) : u \in {"block", "export_statement"}}
              \cup {ImplItem(Some("Job"), <<FnRun>>)}}

Items == Functions \cup {FnMissingName} \cup Impls \cup Mods \cup Wrapped

SourceFile(children) == Node("source_file", <<>>, 0, 9, children)

Roots ==
    {SourceFile(<<>>)}
    \cup {SourceFile(<<x>>) : x \in Items}
    \cup {SourceFile(<<c, f>>) : c \in {DocComment, BlockComment},
                                 f \in Functions \cup {FnMissingName}}
    \cup {SourceFile(<<f, g>>) : f \in Functions, g \in Functions}

Configs == {RUST_CONFIG, WRAPPING_CONFIG}

\* in-memory signatures and docstrings around the limits of to_dict
Signatures ==
    {None} \cup {Str("s", n) : n \in {0, 1, SignatureLimit - 1, SignatureLimit,
                                      SignatureLimit + 1, 2 * SignatureLimit}}

Docstrings ==
    {None}
    \cup {Str("d", n) : n \in {0, 1, DocstringLimit, DocstringLimit + 1,
                               2 * DocstringLimit}}
    \cup {Some(<<" ">> \o Rep("d", DocstringLimit) \o <<" ">>),
          Some(<<" ">> \o Rep("d", DocstringLimit + 1) \o <<"\n">>),
          Some(Rep(" ", 3))}

\* the symbol `inner` at the given depth of a tree
RECURSIVE Nested(_, _)
Nested(inner, depth) ==
    IF depth = 0 THEN inner
    ELSE Symbol("Greeter", "class", <<1, 9>>, Str("s", SignatureLimit + 1),
                Str("d", DocstringLimit + 1), <<SymFunc, Nested(inner, depth - 1)>>)

MaxDepth == 2

Serialized ==
    {Nested(Symbol("greet", "method", <<2, 4>>, sig, doc, <<>>), depth) :
        sig \in Signatures, doc \in Docstrings, depth \in 0..MaxDepth}

ParseTree ==
    \E config \in Configs, root_node \in Roots :
        /\ Ran(Op("parse", <<>>, <<config, root_node>>,
                  Some(TreeSitterParser_parse(config, root_node))))
        /\ UNCHANGED <<store, fs, clock, parsers, watcher>>

Serialize ==
    \E symbol \in Serialized :
        /\ Ran(Op("to_dict", <<>>, <<symbol>>, Some(Symbol_to_dict(symbol))))
        /\ UNCHANGED <<store, fs, clock, parsers, watcher>>

NextEngine == ParseTree \/ Serialize

SpecEngine == Init /\ [][NextEngine]_vars

(***************************************************************************)
(* C24: kind re-tagging.  In the tree the generic engine produces, every   *)
(* symbol collected through a mapped node's body that was extracted with   *)
(* kind function has kind method, and every such async_function has kind   *)
(* async_method; no symbol below the roots keeps a bare function kind, at  *)
(* any depth.  (In the trees of the model `spawn` is the async function,   *)
(* `run` and the unnamed one are not.)                                     *)
(***************************************************************************)
C24_BodyFunctionsAreMethods ==
    last.op = "parse" =>
        \A pos \in Positions(Val(last.ret)) :
            Len(pos) >= 2 =>
                LET symbol == NodeAt(Val(last.ret), pos)
                IN  /\ symbol.type \notin {"function", "async_function"}
                    /\ symbol.name = "spawn" => symbol.type = "async_method"
                    /\ symbol.name \in {"run", Anonymous} => symbol.type = "method"

\* an async function two bodies down (mod > impl > fn) came out re-tagged
C24_Witness ==
    /\ last.op = "parse"
    /\ \E pos \in Positions(Val(last.ret)) :
           /\ Len(pos) = 3
           /\ NodeAt(Val(last.ret), pos).name = "spawn"
           /\ NodeAt(Val(last.ret), pos).type = "async_method"

\* the rule-mapped nodes reachable from `node` through nodes without a rule
RECURSIVE ThroughUnmapped(_, _)
ThroughUnmapped(config, node) ==
    IF node.children = <<>> THEN <<>>
    ELSE LET child == Head(node.children)
             rest == ThroughUnmapped(config, [node EXCEPT !.children = Tail(@)])
         IN  IF child.type \in DOMAIN config.node_mappings
             THEN <<child>> \o rest
             ELSE ThroughUnmapped(config, child) \o rest

\* the node has a child its rule takes the name from, with a text
Named(config, node) ==
    \E i \in DOMAIN config.node_mappings[node.type].name_child :
        LET name_node == _find_child(node, config.node_mappings[node.type].name_child[i])
        IN  name_node # None /\ _get_node_text(Val(name_node)) # ""

(***************************************************************************)
(* C25: a node whose type has no rule is transparent at any depth: every   *)
(* rule-mapped (and named) node reachable from the root through a chain    *)
(* of nodes without a rule is emitted as a root symbol.  Refuted: only the *)
(* root's own children are looked at, and the children of a node listed    *)
(* in export_wrappers; any other node without a rule is dropped with       *)
(* everything below it.                                                    *)
(***************************************************************************)
C25_UnmappedNodesAreTransparent ==
    last.op = "parse" =>
        LET config == last.args[1]
            reachable == SelectSeq(ThroughUnmapped(config, last.args[2]),
                                   LAMBDA n : Named(config, n))
            emitted == SelectSeq(Val(last.ret), LAMBDA s : s.name # Anonymous)
        IN  Len(emitted) = Len(reachable)

(***************************************************************************)
(* C26: anonymous-node policy.  A rule-mapped node with no child matching  *)
(* any candidate name path yields no symbol; every emitted symbol carries  *)
(* a name taken from the source tree.  Refuted: _extract_name falls back   *)
(* to the placeholder "<anonymous>", which is not empty, so the symbol is  *)
(* emitted under that name.  (No identifier of the model's trees has that  *)
(* text.)                                                                  *)
(***************************************************************************)
C26_UnnamedNodesAreSkipped ==
    last.op = "parse" =>
        \A pos \in Positions(Val(last.ret)) :
            NodeAt(Val(last.ret), pos).name # Anonymous

\* the serialized symbol and all below it keep within the limits
RECURSIVE WithinLimits(_)
WithinLimits(data) ==
    /\ "signature" \in DOMAIN data => Len(data["signature"]) <= SignatureLimit
    /\ "docstring" \in DOMAIN data => Len(data["docstring"]) <= DocstringLimit
    /\ "children" \in DOMAIN data =>
           \A i \in DOMAIN data["children"] : WithinLimits(data["children"][i])

(***************************************************************************)
(* C27: truncation bounds.  Whatever the lengths of a symbol's in-memory   *)
(* signature and docstring, its serialized form has a signature of at      *)
(* most 100 characters and a docstring of at most 150, at every depth.     *)
(***************************************************************************)
C27_SerializedWithinLimits ==
    last.op = "to_dict" => WithinLimits(Val(last.ret))

\* a symbol two levels down whose signature and docstring were both longer
\* came out at exactly the limits
C27_Witness ==
    /\ last.op = "to_dict"
    /\ last.args[1].children # <<>>
    /\ last.args[1].children[2].children # <<>>
    /\ LET symbol == last.args[1].children[2].children[2]
           data == Val(last.ret)["children"][2]["children"][2]
       IN  /\ symbol.signature # None
           /\ symbol.docstring # None
           /\ Len(Val(symbol.signature)) > SignatureLimit
           /\ Len(strip(Val(symbol.docstring))) > DocstringLimit
           /\ Len(data["signature"]) = SignatureLimit
           /\ Len(data["docstring"]) = DocstringLimit

(***************************************************************************)
(* C28: after index_all() completes the paths the store holds are exactly  *)
(* the discovered files that did not fail to index, and the returned       *)
(* total_files is the number of FileEntries in the store.                  *)
(***************************************************************************)
C28_ReindexHoldsWhatItCounts ==
    last.op = "index_all" =>
        LET held == get_all_files(store).ret
        IN  /\ {held[i][1] : i \in 1..Len(held)}
                   = discover_files(fs) \ Range(Val(last.ret).errors)
            /\ Val(last.ret).total_files = Len(held)

(***************************************************************************)
(* core/watcher.py: the watcher.  The observer thread dispatches the file  *)
(* system events one at a time to the CodemapEventHandler; every           *)
(* _schedule_change starts a threading.Timer thread, which runs            *)
(* _process_pending_changes when it expires uncancelled.  The steps of     *)
(* the threads interleave at the points where the code takes or releases   *)
(* _lock, where a timer expires and where on_change is entered and left.   *)
(***************************************************************************)
\* the changes the user's file events of one run ask to schedule
MaxEvents == 3

\* the same, in the runs that are followed until the watcher is quiet
MaxBurst == 2

\* the characters of the path components of the model
ComponentChars(name) ==
    CASE name = ".codemap" -> <<".", "c", "o", "d", "e", "m", "a", "p">>
      [] name = "x.py" -> <<"x", ".", "p", "y">>
      [] name = "y.py" -> <<"y", ".", "p", "y">>
      [] name = "a" -> <<"a">>
      [] OTHER -> <<".", "c", "o", "d", "e", "m", "a", "p", ".", "j", "s", "o", "n">>

\* str(filepath.relative_to(self.root))
RECURSIVE PathStr(_)
PathStr(rel_path) ==
    IF rel_path = <<>> THEN <<>>
    ELSE IF Len(rel_path) = 1 THEN ComponentChars(Head(rel_path))
    ELSE ComponentChars(Head(rel_path)) \o <<"/">> \o PathStr(Tail(rel_path))

InCodemap_never(rel_path) == FALSE

\* rel_path.startswith(".codemap")
InCodemap(rel_path) == StartsWith(PathStr(rel_path), ComponentChars(".codemap"))

\* utils/file_utils.py: should_exclude on the paths of the model, none of
\* which matches a glob of DEFAULT_EXCLUDE_PATTERNS
should_exclude(rel_path) ==
    \E i \in 1..Len(rel_path) :
        rel_path[i] \in {"node_modules", "__pycache__", ".venv", "venv",
                         "dist", "build", ".git"}

\* Path.is_dir() on the paths of the model
is_dir(filepath) == filepath \in {<<"a">>, <<".codemap">>}

\* a watchdog FileSystemEvent
FileSystemEvent(event_type, src_path, dest_path, is_directory) ==
    [event_type |-> event_type, src_path |-> src_path,
     dest_path |-> dest_path, is_directory |-> is_directory]

_should_process(path) ==
    /\ ~is_dir(path)
    /\ ~InCodemap(path)
    /\ get_language(path) # None
    /\ ~should_exclude(path)

\* the handler's callbacks, as the _schedule_change calls they make
on_created(event) ==
    IF ~event.is_directory /\ _should_process(event.src_path)
    THEN <<<<event.src_path, "created">>>> ELSE <<>>

on_modified(event) ==
    IF ~event.is_directory /\ _should_process(event.src_path)
    THEN <<<<event.src_path, "modified">>>> ELSE <<>>

on_deleted(event) ==
    IF /\ ~event.is_directory
       /\ get_language(event.src_path) # None
       /\ ~InCodemap(event.src_path)
       /\ ~should_exclude(event.src_path)
    THEN <<<<event.src_path, "deleted">>>> ELSE <<>>

on_moved(event) ==
    IF event.is_directory THEN <<>>
    ELSE IF get_language(event.src_path) # None /\ InCodemap(event.src_path)
    THEN <<>>                                   \* the return of line 168
    ELSE (IF /\ get_language(event.src_path) # None
             /\ ~should_exclude(event.src_path)
          THEN <<<<event.src_path, "deleted">>>> ELSE <<>>)
         \o (IF _should_process(event.dest_path)
             THEN <<<<event.dest_path, "created">>>> ELSE <<>>)

\* FileSystemEventHandler.dispatch
dispatch(event) ==
    CASE event.event_type = "created" -> on_created(event)
      [] event.event_type = "modified" -> on_modified(event)
      [] event.event_type = "deleted" -> on_deleted(event)
      [] OTHER -> on_moved(event)

DictSet_replaces_all(pending, entry) == <<entry>>

\* self._pending_changes[key] = entry: a dict keeps the position of a key
\* it already holds
DictSet(pending, entry) ==
    IF \E i \in 1..Len(pending) : pending[i].filepath = entry.filepath
    THEN [i \in 1..Len(pending) |->
             IF pending[i].filepath = entry.filepath THEN entry ELSE pending[i]]
    ELSE Append(pending, entry)

\* a threading.Timer thread: armed until it expires or is cancelled, fired
\* once it has tested its finished flag, then running
\* _process_pending_changes with the changes it took
Timer == [state |-> "armed", changes |-> <<>>]

\* Timer.cancel() sets the finished flag, which only an armed timer reads
cancel(timers, handle) ==
    IF handle = None \/ timers[Val(handle)].state # "armed" THEN timers
    ELSE [timers EXCEPT ![Val(handle)].state = "cancelled"]

\* a debounce window is open while the timer started last is armed
WindowOpen(w) == w.timers # <<>> /\ w.timers[Len(w.timers)].state = "armed"

\* CodeMapWatcher._handle_change; what it raises is caught and logged
_handle_change(s, files, filepath, event_type, now) ==
    IF event_type = "deleted"
    THEN LET r == remove_file(s, filepath)
         IN  IF r.ret THEN save(update_stats(r.s)) ELSE r.s
    ELSE Indexer_update_file(s, files, filepath, now).s

\* the files of a shard and of the manifest under .codemap
ShardPath(directory) ==
    IF directory = <<>> THEN <<".codemap", "_root.codemap.json">>
    ELSE <<".codemap">> \o directory \o <<".codemap.json">>

\* the events the observer sees for what a step of the store wrote
IndexEvents(s) ==
    LET gone == SetToSeq(s.unlinked)
        kept == SetToSeq(s.written)
    IN  [i \in 1..Len(gone) |->
            FileSystemEvent("deleted", ShardPath(gone[i]), <<>>, FALSE)]
        \o [i \in 1..Len(kept) |->
            FileSystemEvent("modified", ShardPath(kept[i]), <<>>, FALSE)]
        \o (IF s.manifest_written
            THEN <<FileSystemEvent("modified", <<".codemap", ".codemap.json">>,
                                   <<>>, FALSE),
                   FileSystemEvent("modified", <<".codemap">>, <<>>, TRUE)>>
            ELSE <<>>)

\* the files the user changes: two sources and a source file put under
\* .codemap
WatchedPaths == {<<"x.py">>, <<"a", "y.py">>, <<".codemap", "x.py">>}

\* the bytes the user writes
WatchedContents == {0}

\* the watcher is built over the index of a project without files
InitWatcher ==
    /\ store = LET s == index_all(MapStore(None, NoFiles),
                                  [p \in WatchedPaths |-> None], <<>>, 0).s
               IN  MapStore_load(s.disk_manifest, s.disk_shards)
    /\ fs = [p \in WatchedPaths |-> None]
    /\ clock = 0
    /\ last = Op("init", <<>>, <<>>, None)
    /\ repeated = FALSE
    /\ parsers = Parsers
    /\ watcher = [CodeMapWatcher EXCEPT !.events = MaxEvents]

\* the watcher is built over the index of a project that holds x.py
InitWatcherLive ==
    LET files == [p \in WatchedPaths |->
                     IF p = <<"x.py">> THEN Some(File(0, TRUE)) ELSE None]
        s == index_all(MapStore(None, NoFiles), files, <<<<"x.py">>>>, 0).s
    IN  /\ parsers = Parsers
        /\ store = MapStore_load(s.disk_manifest, s.disk_shards)
        /\ fs = files
        /\ clock = 0
        /\ last = Op("init", <<>>, <<>>, None)
        /\ repeated = FALSE
        /\ watcher = [CodeMapWatcher EXCEPT !.events = MaxBurst]

\* CodeMapWatcher.start; the model follows one handler, from the one
\* start() of the run
Start ==
    /\ ~watcher.started
    /\ watcher' = [watcher EXCEPT !.started = TRUE, !._running = TRUE]
    /\ UNCHANGED <<store, fs, clock, last, repeated, parsers>>

\* CodeMapWatcher.stop: the observer is stopped and joined, the events it
\* had not dispatched are dropped
Stop ==
    /\ watcher._running
    /\ watcher.todo = <<>>
    /\ watcher' = [watcher EXCEPT !._running = FALSE, !.inbox = <<>>]
    /\ UNCHANGED <<store, fs, clock, last, repeated, parsers>>

\* an event counts for the calls of _schedule_change it leads to, and for
\* one if it leads to none
Cost(event) == IF Len(dispatch(event)) > 1 THEN Len(dispatch(event)) ELSE 1

Observed(event) ==
    /\ watcher._running
    /\ watcher.events >= Cost(event)
    /\ watcher' = [watcher EXCEPT !.inbox = Append(@, event),
                                  !.events = @ - Cost(event)]
    /\ UNCHANGED <<store, clock, last, repeated, parsers>>

UserWrites ==
    \E p \in WatchedPaths, c \in WatchedContents :
        /\ fs' = [fs EXCEPT ![p] = Some(File(c, TRUE))]
        /\ Observed(FileSystemEvent(IF fs[p] = None THEN "created" ELSE "modified",
                                    p, <<>>, FALSE))

UserDeletes ==
    \E p \in WatchedPaths :
        /\ fs[p] # None
        /\ fs' = [fs EXCEPT ![p] = None]
        /\ Observed(FileSystemEvent("deleted", p, <<>>, FALSE))

UserMoves ==
    \E p \in WatchedPaths, q \in WatchedPaths :
        /\ p # q /\ fs[p] # None /\ fs[q] = None
        /\ fs' = [fs EXCEPT ![q] = fs[p], ![p] = None]
        /\ Observed(FileSystemEvent("moved", p, q, FALSE))

\* the observer thread hands the next event to the handler
Dispatch ==
    /\ watcher._running
    /\ watcher.inbox # <<>>
    /\ watcher.todo = <<>>
    /\ watcher' = [watcher EXCEPT !.inbox = Tail(@),
                                  !.todo = dispatch(Head(watcher.inbox))]
    /\ UNCHANGED <<store, fs, clock, last, repeated, parsers>>

\* _schedule_change up to line 103: the lock is taken, the entry stored
ScheduleEnter ==
    /\ watcher.todo # <<>>
    /\ ~watcher.locked
    /\ LET entry == [filepath |-> Head(watcher.todo)[1],
                     event_type |-> Head(watcher.todo)[2],
                     time |-> watcher.time + 1]
           window == IF watcher.windows = <<>> THEN 1
                     ELSE IF WindowOpen(watcher)
                     THEN watcher.windows[Len(watcher.windows)]
                     ELSE watcher.windows[Len(watcher.windows)] + 1
           replaced == {e.time : e \in {x \in Range(watcher._pending_changes) :
                                            x.filepath = entry.filepath}}
       IN  watcher' = [watcher EXCEPT
                          !.locked = TRUE,
                          !._pending_changes = DictSet(@, entry),
                          !.time = @ + 1,
                          !.scheduled = Append(@, entry),
                          !.windows = Append(@, window),
                          !.called = Append(@, 0),
                          !.superseded = @ \cup replaced]
    /\ UNCHANGED <<store, fs, clock, last, repeated, parsers>>

\* _schedule_change from line 106: the timer is cancelled, a new one is
\* started, the lock is released
ScheduleExit ==
    /\ watcher.locked
    /\ LET timers == cancel(watcher.timers, watcher._debounce_timer)
       IN  watcher' = [watcher EXCEPT
                          !.timers = Append(timers, Timer),
                          !._debounce_timer = Some(Len(timers) + 1),
                          !.locked = FALSE,
                          !.todo = Tail(@)]
    /\ UNCHANGED <<store, fs, clock, last, repeated, parsers>>

\* debounce_seconds have passed and the timer was not cancelled
Expire ==
    \E t \in 1..Len(watcher.timers) :
        /\ watcher.timers[t].state = "armed"
        /\ watcher' = [watcher EXCEPT !.timers[t].state = "fired"]
        /\ UNCHANGED <<store, fs, clock, last, repeated, parsers>>

\* _process_pending_changes, lines 119 to 122, under the lock
Take ==
    \E t \in 1..Len(watcher.timers) :
        /\ watcher.timers[t].state = "fired"
        /\ ~watcher.locked
        /\ watcher' = [watcher EXCEPT
                          !.timers[t].changes = watcher._pending_changes,
                          !.timers[t].state =
                              IF watcher._pending_changes = <<>>
                              THEN "done" ELSE "running",
                          !._pending_changes = <<>>,
                          !._debounce_timer = None]
        /\ UNCHANGED <<store, fs, clock, last, repeated, parsers>>

\* line 126: on_change is entered with the next change taken
CallBegin ==
    \E t \in 1..Len(watcher.timers) :
        /\ watcher.timers[t].state = "running"
        /\ LET change == Head(watcher.timers[t].changes)
           IN  watcher' = [watcher EXCEPT
                              !.timers[t].state = "calling",
                              !.called[change.time] = @ + 1,
                              !.late = IF watcher._running THEN @
                                       ELSE @ \cup {change.time}]
        /\ UNCHANGED <<store, fs, clock, last, repeated, parsers>>

\* on_change returns: the index is updated for the change
CallEnd ==
    \E t \in 1..Len(watcher.timers) :
        /\ watcher.timers[t].state = "calling"
        /\ LET change == Head(watcher.timers[t].changes)
               s == _handle_change(Begin(store), fs, change.filepath,
                                   change.event_type, clock)
           IN  /\ store' = s
               /\ watcher' = [watcher EXCEPT
                      !.timers[t].changes = Tail(@),
                      !.timers[t].state =
                          IF Tail(watcher.timers[t].changes) = <<>>
                          THEN "done" ELSE "running",
                      !.inbox = IF watcher._running
                                THEN @ \o IndexEvents(s) ELSE @]
        /\ UNCHANGED <<fs, clock, last, repeated, parsers>>

NextWatcher ==
    \/ Start \/ Stop \/ UserWrites \/ UserDeletes \/ UserMoves
    \/ Dispatch \/ ScheduleEnter \/ ScheduleExit
    \/ Expire \/ Take \/ CallBegin \/ CallEnd

SpecWatcher == InitWatcher /\ [][NextWatcher]_vars

\* some timer thread is inside on_change
Calling ==
    \E t \in 1..Len(watcher.timers) : watcher.timers[t].state = "calling"

\* every thread that can take a step is scheduled in the end, an armed
\* timer expires, and every on_change call returns
SpecWatcherLive ==
    /\ InitWatcherLive /\ [][NextWatcher]_vars
    /\ WF_vars(Dispatch) /\ WF_vars(ScheduleEnter) /\ WF_vars(ScheduleExit)
    /\ WF_vars(Expire) /\ WF_vars(Take) /\ WF_vars(CallBegin)
    /\ []<>~Calling

(***************************************************************************)
(* C21: events for one path that arrive within one debounce window (each   *)
(* one restarting the window) lead to exactly one on_change call for that  *)
(* path, carrying the type of the most recent event.                       *)
(***************************************************************************)
\* the entries stamped for filepath in debounce window w
InWindow(filepath, w) ==
    {t \in 1..watcher.time :
        watcher.scheduled[t].filepath = filepath /\ watcher.windows[t] = w}

\* on_change calls made so far with the entries of T
Calls(T) == SumOver(watcher.called, T)

\* nothing is pending or being processed any more
Quiet ==
    /\ watcher.inbox = <<>> /\ watcher.todo = <<>>
    /\ watcher._pending_changes = <<>>
    /\ \A t \in 1..Len(watcher.timers) :
           watcher.timers[t].state \in {"done", "cancelled"}

C21_OneCallPerWindow ==
    \A filepath \in WatchedPaths : \A w \in Range(watcher.windows) :
        LET T == InWindow(filepath, w)
            newest == CHOOSE t \in T : \A u \in T : u <= t
        IN  T # {} =>
                /\ Calls(T) <= 1
                /\ Calls(T) = 1 => watcher.called[newest] = 1
                /\ Quiet => Calls(T) = 1

(***************************************************************************)
(* C22: at any time at most one on_change invocation is executing.         *)
(***************************************************************************)
C22_OneCallAtATime ==
    Cardinality({t \in 1..Len(watcher.timers) :
                    watcher.timers[t].state = "calling"}) <= 1

(***************************************************************************)
(* C23: stop() cancels the pending debounce timer: once stop() has         *)
(* returned no timer is armed and no on_change call begins.                *)
(***************************************************************************)
Stopped == watcher.started /\ ~watcher._running

C23_StopCancelsTimer ==
    /\ Stopped => \A t \in 1..Len(watcher.timers) :
                      watcher.timers[t].state # "armed"
    /\ watcher.late = {}

(***************************************************************************)
(* C29: the watcher never schedules a change for a file inside the         *)
(* .codemap directory, whatever the kind of the event (created, modified,  *)
(* deleted, or the source of a move), and after the file events of the     *)
(* run it reaches a state with no pending change and no running timer.     *)
(***************************************************************************)
InsideCodemap(filepath) == filepath # <<>> /\ Head(filepath) = ".codemap"

NoneScheduledInsideCodemap ==
    /\ \A i \in 1..Len(watcher.todo) : ~InsideCodemap(watcher.todo[i][1])
    /\ \A t \in 1..watcher.time : ~InsideCodemap(watcher.scheduled[t].filepath)
    /\ \A e \in Range(watcher._pending_changes) : ~InsideCodemap(e.filepath)

C29_IndexWritesNeverScheduled ==
    []NoneScheduledInsideCodemap /\ []<>Quiet

\* the watcher has indexed x.py and written the index, a source file was
\* put under .codemap, every event of it was dispatched, all is quiet
C29_Witness ==
    /\ watcher._running /\ Quiet
    /\ fs[<<".codemap", "x.py">>] # None
    /\ get_file(store, <<"x.py">>).ret # None
    /\ watcher.time > 0 /\ watcher.events = 0

(***************************************************************************)
(* C30: no scheduled change is lost or duplicated: the pending map is      *)
(* taken as a whole under the lock, every taken entry is handed to         *)
(* on_change exactly once, and every change that was pending is delivered  *)
(* in the end (unless a later event of its path replaced it).              *)
(***************************************************************************)
\* the timers holding the entry stamped t among the changes they took
Holders(t) ==
    {i \in 1..Len(watcher.timers) :
        \E e \in Range(watcher.timers[i].changes) : e.time = t}

IsPending(t) == \E e \in Range(watcher._pending_changes) : e.time = t

\* entry t is with exactly one of: the pending map, a timer's taken
\* changes, the entries replaced, the entries on_change was called with
Accounted(t) ==
    /\ Cardinality(Holders(t)) <= 1
    /\ watcher.called[t] <= 1
    /\ watcher.called[t] = 1 =>
           /\ ~IsPending(t) /\ t \notin watcher.superseded
           /\ \A i \in Holders(t) :
                  /\ watcher.timers[i].state = "calling"
                  /\ Head(watcher.timers[i].changes).time = t
    /\ watcher.called[t] = 0 =>
           /\ IsPending(t) \/ t \in watcher.superseded \/ Holders(t) # {}
           /\ ~(IsPending(t) /\ t \in watcher.superseded)
           /\ ~(IsPending(t) /\ Holders(t) # {})
           /\ ~(t \in watcher.superseded /\ Holders(t) # {})
           /\ \A i \in Holders(t) :
                  watcher.timers[i].state \in {"running", "calling"}

Delivered(t) ==
    t <= watcher.time /\ (watcher.called[t] = 1 \/ t \in watcher.superseded)

C30_NothingLostOrDuplicated ==
    /\ [](\A t \in 1..watcher.time : Accounted(t))
    /\ \A t \in 1..MaxBurst : [](t <= watcher.time => <>Delivered(t))

\* one timer took the changes of two paths and on_change was called with
\* both
C30_Witness ==
    /\ Quiet
    /\ \E t \in 1..watcher.time, u \in 1..watcher.time :
           /\ watcher.scheduled[t].filepath # watcher.scheduled[u].filepath
           /\ watcher.windows[t] = watcher.windows[u]
           /\ watcher.called[t] = 1 /\ watcher.called[u] = 1

====
